---- MODULE Spec2Model ----
(***************************************************************************)
(* A model of the question-generation pipeline of acemock                  *)
(* (services/geminiService.ts and services/externalSearch.ts, kept in      *)
(* src/unnamed/part_000): callWithRetry, generateBatchQuestions with its   *)
(* answer normalisation, cleanQuestionPrefix, and generateExamQuestions    *)
(* with its shard planning, SERIAL / PARALLEL scheduling and the           *)
(* three-tier deduplication scan.                                          *)
(*                                                                         *)
(* Texts are sequences of UTF-16 code units (the values of a JavaScript    *)
(* string's charCodeAt), so that the regular expressions, trim, includes,  *)
(* substring and JSON.parse are modelled by what they do to the units.     *)
(***************************************************************************)
EXTENDS Integers, Sequences, FiniteSets, TLC

VARIABLES
    cfg,                  \* the arguments and the stored performance configuration
    pc,                   \* where generateExamQuestions stands
    cur,                  \* the loop variable i of the scheduling loops
    logs,                 \* the calls made to onLog, in order
    externalContext,      \* const externalContext                (line 356)
    batchCounts,          \* const batchCounts: number[]          (line 365)
    remaining,            \* let remaining                        (line 366)
    currentProgress,      \* let currentProgress                  (line 376)
    questions,            \* let questions: Question[]            (line 377)
    shards,               \* the generateBatchQuestions calls, by batchIndex
    result,               \* the promise generateExamQuestions returned
    qi,                   \* how many elements the for-of loop of line 447 has taken
    uniqueQuestions,      \* const uniqueQuestions: Question[]    (line 439)
    acceptedFingerprints, \* const acceptedFingerprints: string[] (line 440)
    rawQuestions,         \* parsed.questions of one shard response (line 284)
    mapped,               \* what the map of line 284 has produced so far
    call,                 \* one call of a function taken on its own
    failed,               \* the shards whose promise rejected, in the order of time
    events                \* launches and settlements of shards while the run is
                          \* pending, in the order of time

vars == <<cfg, pc, cur, logs, externalContext, batchCounts, remaining,
          currentProgress, questions, shards, result, qi, uniqueQuestions,
          acceptedFingerprints, rawQuestions, mapped,
                   call, failed, events>>

----------------------------------------------------------------------------
(* Sequences and small helpers                                             *)
(*                                                                         *)
(* A value that the code computes once and reads several times (a const    *)
(* of the source) is handed to a local operator as its argument, so that   *)
(* the expression that computes it stands in one place.                    *)

Min(a, b) == IF a < b THEN a ELSE b

Drop(s, n) == SubSeq(s, n + 1, Len(s))

\* The index of the first element of s at or after i that is not in C
\* (Len(s) + 1 when there is none): where a greedy C* started at i ends.
RunEnd(s, i, C) ==
    IF \A j \in i..Len(s) : s[j] \in C
    THEN Len(s) + 1
    ELSE CHOOSE j \in i..Len(s) :
            s[j] \notin C /\ \A k \in i..(j - 1) : s[k] \in C

\* The permutations of a sequence (Array.prototype.sort with a random
\* comparator may return any of them).
Perms(s) ==
    { [i \in 1..Len(s) |-> s[f[i]]] :
        f \in { g \in [1..Len(s) -> 1..Len(s)] :
                  \A a, b \in 1..Len(s) : a # b => g[a] # g[b] } }

----------------------------------------------------------------------------
(* Character classes of the JavaScript regular expressions                 *)

\* \s and String.prototype.trim: WhiteSpace and LineTerminator
SpaceChars ==
    {9, 10, 11, 12, 13, 32, 160, 5760, 8232, 8233, 8239, 8287, 12288, 65279}
        \cup (8192..8202)

\* \d
DigitChars == 48..57

\* the /i flag on the ASCII letters of the patterns
ToLower(c) == IF c \in 65..90 THEN c + 32 ELSE c

\* s continues at index i with lit, compared case-insensitively
StartsWithCI(s, i, lit) ==
    /\ Len(s) >= i + Len(lit) - 1
    /\ \A k \in 1..Len(lit) : ToLower(s[i + k - 1]) = ToLower(lit[k])

\* String.prototype.trim
Trim(s) ==
    LET a == RunEnd(s, 1, SpaceChars)
        t == Drop(s, a - 1)
    IN  IF t = <<>> THEN <<>>
        ELSE SubSeq(t, 1,
                CHOOSE e \in 1..Len(t) :
                    t[e] \notin SpaceChars
                    /\ \A k \in (e + 1)..Len(t) : t[k] \in SpaceChars)

----------------------------------------------------------------------------
(* cleanQuestionPrefix                                                     *)

\* (Q|Question|题目|问题|Case|案例|习题), in the order of the alternation
NumberedLabels ==
    << <<81>>,
       <<81, 117, 101, 115, 116, 105, 111, 110>>,
       <<39064, 30446>>,
       <<38382, 39064>>,
       <<67, 97, 115, 101>>,
       <<26696, 20363>>,
       <<20064, 39064>> >>

\* [\s\.\:\：\-、]
LabelSepChars == SpaceChars \cup {46, 58, 65306, 45, 12289}

\* The pattern of line 325 cut after \d+: the label and its number are
\* taken away and the separators after them are left.
StripNumberedLabelNoSep(s) ==
    LET digitsAt(k) == RunEnd(s, 1 + Len(NumberedLabels[k]), SpaceChars)
        digitsEnd(k) == RunEnd(s, digitsAt(k), DigitChars)
        ok(k) == /\ StartsWithCI(s, 1, NumberedLabels[k])
                 /\ digitsEnd(k) > digitsAt(k)
        alts == { k \in 1..Len(NumberedLabels) : ok(k) }
    IN  IF alts = {} THEN s
        ELSE LET k == CHOOSE a \in alts : \A b \in alts : a <= b
             IN  Drop(s, digitsEnd(k) - 1)

\* /^(Q|Question|题目|问题|Case|案例|习题)\s*\d+[\s\.\:\：\-、]*\s*/i
\* s without the match of the pattern (s itself when it does not match).
\* The alternatives are tried in order and the first one after which \s*\d+
\* matches is taken; the tail is greedy and cannot fail.
StripNumberedLabel(s) ==
    LET digitsAt(k) == RunEnd(s, 1 + Len(NumberedLabels[k]), SpaceChars)
        digitsEnd(k) == RunEnd(s, digitsAt(k), DigitChars)
        ok(k) == /\ StartsWithCI(s, 1, NumberedLabels[k])
                 /\ digitsEnd(k) > digitsAt(k)
        alts == { k \in 1..Len(NumberedLabels) : ok(k) }
    IN  IF alts = {} THEN s
        ELSE LET k == CHOOSE a \in alts : \A b \in alts : a <= b
             IN  Drop(s, RunEnd(s, digitsEnd(k), LabelSepChars) - 1)

\* [\(【\[]   [\)\]】]   [、\.\．\:\：\)\-、]
OpenChars == {40, 12304, 91}
CloseChars == {41, 93, 12305}
NumberSepChars == {12289, 46, 65294, 58, 65306, 41, 45}

\* /^[\(【\[]?\d+[\)\]】]?\s*[、\.\．\:\：\)\-、]\s*/
\* The optional closing bracket is tried first; when the separator does not
\* follow, the match is retried without it (so that the ")" of "1)" can be
\* the separator itself).
StripNumber(s) ==
    LET d0 == IF s # <<>> /\ s[1] \in OpenChars THEN 2 ELSE 1
        d1 == RunEnd(s, d0, DigitChars)
        sepAfter(p) ==
            LET q == RunEnd(s, p, SpaceChars)
            IN  IF q <= Len(s) /\ s[q] \in NumberSepChars THEN q ELSE 0
        withClose ==
            IF d1 <= Len(s) /\ s[d1] \in CloseChars THEN sepAfter(d1 + 1) ELSE 0
        sep == IF withClose # 0 THEN withClose ELSE sepAfter(d1)
    IN  IF d1 > d0 /\ sep # 0
        THEN Drop(s, RunEnd(s, sep + 1, SpaceChars) - 1)
        ELSE s

\* /^①\s*/
StripCircledOne(s) ==
    IF s # <<>> /\ s[1] = 9312
    THEN Drop(s, RunEnd(s, 2, SpaceChars) - 1)
    ELSE s

\* (题目|问题|Question)
BareLabels ==
    << <<39064, 30446>>,
       <<38382, 39064>>,
       <<81, 117, 101, 115, 116, 105, 111, 110>> >>

\* /^(题目|问题|Question)[:：]\s*/i
StripBareLabel(s) ==
    LET ok(k) == /\ StartsWithCI(s, 1, BareLabels[k])
                 /\ Len(s) > Len(BareLabels[k])
                 /\ s[Len(BareLabels[k]) + 1] \in {58, 65306}
        alts == { k \in 1..Len(BareLabels) : ok(k) }
    IN  IF alts = {} THEN s
        ELSE LET k == CHOOSE a \in alts : \A b \in alts : a <= b
             IN  Drop(s, RunEnd(s, Len(BareLabels[k]) + 2, SpaceChars) - 1)

cleanQuestionPrefix(text) ==
    Trim(StripBareLabel(StripCircledOne(StripNumber(StripNumberedLabel(Trim(text))))))

----------------------------------------------------------------------------
(* The fingerprint and the three-tier duplicate test                       *)

\* [一-龥a-zA-Z0-9]
IsFingerprintChar(c) ==
    c \in 19968..40869 \/ c \in 48..57 \/ c \in 65..90 \/ c \in 97..122

\* q.questionText.replace(/[^一-龥a-zA-Z0-9]/g, '')
Fingerprint(text) == SelectSeq(text, IsFingerprintChar)

\* a.includes(b)
Includes(a, b) ==
    \E i \in 0..(Len(a) - Len(b)) : SubSeq(a, i + 1, i + Len(b)) = b

\* s.substring(0, n)
Substring0(s, n) == SubSeq(s, 1, Min(n, Len(s)))

MIN_LEN_FOR_FUZZY == 10
prefixLen == 15

\* The body of the inner loop (whether one accepted fingerprint makes the
\* current one a duplicate) without the prefix rule of lines 481-487.
IsDuplicateNoPrefixRule(currentFingerprint, existingFP) ==
    \/ currentFingerprint = existingFP
    \/ /\ Len(currentFingerprint) > MIN_LEN_FOR_FUZZY
       /\ Len(existingFP) > MIN_LEN_FOR_FUZZY
       /\ \/ Includes(currentFingerprint, existingFP)
          \/ Includes(existingFP, currentFingerprint)

\* The same body without the length test of line 471.
IsDuplicateNoLengthGuard(currentFingerprint, existingFP) ==
    \/ currentFingerprint = existingFP
    \/ Includes(currentFingerprint, existingFP)
    \/ Includes(existingFP, currentFingerprint)
    \/ Substring0(currentFingerprint, prefixLen)
          = Substring0(existingFP, prefixLen)

\* The inner loop with the equality test of line 463 alone.
IsDuplicateExactOnly(currentFingerprint, existingFP) ==
    currentFingerprint = existingFP

\* The same body with the test of line 471 passed as soon as one of the two
\* fingerprints is longer than MIN_LEN_FOR_FUZZY.
IsDuplicateOneLong(currentFingerprint, existingFP) ==
    \/ currentFingerprint = existingFP
    \/ /\ \/ Len(currentFingerprint) > MIN_LEN_FOR_FUZZY
          \/ Len(existingFP) > MIN_LEN_FOR_FUZZY
       /\ \/ Includes(currentFingerprint, existingFP)
          \/ Includes(existingFP, currentFingerprint)
          \/ Substring0(currentFingerprint, prefixLen)
                = Substring0(existingFP, prefixLen)

\* The body of the inner loop (lines 461-488)
IsDuplicateOf(currentFingerprint, existingFP) ==
    \/ currentFingerprint = existingFP
    \/ /\ Len(currentFingerprint) > MIN_LEN_FOR_FUZZY
       /\ Len(existingFP) > MIN_LEN_FOR_FUZZY
       /\ \/ Includes(currentFingerprint, existingFP)
          \/ Includes(existingFP, currentFingerprint)
          \/ Substring0(currentFingerprint, prefixLen)
                = Substring0(existingFP, prefixLen)

\* let isDuplicate after the inner loop
isDuplicate(currentFingerprint, fps) ==
    \E k \in 1..Len(fps) : IsDuplicateOf(currentFingerprint, fps[k])

\* The iteration without the test of line 455: a question with an empty
\* fingerprint is judged like any other.
DedupIterationKeepsEmpty(q, u, f) ==
    LET Outcome(cleaned, currentFingerprint, keep) ==
            [q |-> cleaned,
             unique |-> IF keep THEN Append(u, cleaned) ELSE u,
             fps |-> IF keep THEN Append(f, currentFingerprint) ELSE f]
        Judge(cleaned, currentFingerprint) ==
            Outcome(cleaned, currentFingerprint,
                    ~isDuplicate(currentFingerprint, f))
        Scan(cleaned) == Judge(cleaned, Fingerprint(cleaned.questionText))
    IN  Scan([q EXCEPT !.questionText = cleanQuestionPrefix(q.questionText)])

\* One iteration of the for-of loop on q, from the accepted lists u and f:
\* the cleaned question and the lists after it.
DedupIteration(q, u, f) ==
    LET Outcome(cleaned, currentFingerprint, keep) ==
            [q |-> cleaned,
             unique |-> IF keep THEN Append(u, cleaned) ELSE u,
             fps |-> IF keep THEN Append(f, currentFingerprint) ELSE f]
        Judge(cleaned, currentFingerprint) ==
            Outcome(cleaned, currentFingerprint,
                    Len(currentFingerprint) # 0
                        /\ ~isDuplicate(currentFingerprint, f))
        Scan(cleaned) == Judge(cleaned, Fingerprint(cleaned.questionText))
    IN  Scan([q EXCEPT !.questionText = cleanQuestionPrefix(q.questionText)])

\* The whole loop, from element i of qs on.
RECURSIVE DedupFrom(_, _, _, _)
DedupFrom(qs, i, u, f) ==
    LET Rest(r) == DedupFrom([qs EXCEPT ![i] = r.q], i + 1, r.unique, r.fps)
    IN  IF i > Len(qs) THEN [questions |-> qs, unique |-> u, fps |-> f]
        ELSE Rest(DedupIteration(qs[i], u, f))

----------------------------------------------------------------------------
(* JSON.parse                                                              *)

\* A JavaScript value as JSON.parse builds it: a tag and a payload. The
\* payload of a string is its code units, of a number its source text, of an
\* array its elements, of an object its members << key, value >>.
JStr(u) == [t |-> "string", v |-> u]
JNum(u) == [t |-> "number", v |-> u]
JArr(e) == [t |-> "array", v |-> e]
JObj(m) == [t |-> "object", v |-> m]
JLit(name) == [t |-> name, v |-> <<>>]

ParseFail == [ok |-> FALSE, pos |-> 0, val |-> JLit("null")]
ParseOk(v, p) == [ok |-> TRUE, pos |-> p, val |-> v]

JsonWsChars == {9, 10, 13, 32}
HexChars == (48..57) \cup (65..70) \cup (97..102)

HexVal(c) == IF c \in 48..57 THEN c - 48
             ELSE IF c \in 65..70 THEN c - 55 ELSE c - 87

\* The unit a two-character escape stands for, 0 when there is none
\* ( \" \\ \/ \b \f \n \r \t ).
SimpleEscape(c) ==
    CASE c = 34 -> 34 [] c = 92 -> 92 [] c = 47 -> 47 [] c = 98 -> 8
      [] c = 102 -> 12 [] c = 110 -> 10 [] c = 114 -> 13 [] c = 116 -> 9
      [] OTHER -> 0

\* s continues at index i with lit, compared exactly
StartsWithAt(s, i, lit) ==
    /\ Len(s) >= i + Len(lit) - 1
    /\ \A k \in 1..Len(lit) : s[i + k - 1] = lit[k]

\* A string literal, from the unit after its opening quote.
RECURSIVE ParseStringBody(_, _, _)
ParseStringBody(s, i, acc) ==
    IF i > Len(s) THEN ParseFail
    ELSE IF s[i] = 34 THEN ParseOk(JStr(acc), i + 1)
    ELSE IF s[i] = 92 THEN
        IF i + 1 > Len(s) THEN ParseFail
        ELSE IF SimpleEscape(s[i + 1]) # 0
            THEN ParseStringBody(s, i + 2, Append(acc, SimpleEscape(s[i + 1])))
        ELSE IF /\ s[i + 1] = 117
                /\ i + 5 <= Len(s)
                /\ \A k \in 2..5 : s[i + k] \in HexChars
            THEN ParseStringBody(s, i + 6,
                    Append(acc, 4096 * HexVal(s[i + 2]) + 256 * HexVal(s[i + 3])
                                + 16 * HexVal(s[i + 4]) + HexVal(s[i + 5])))
        ELSE ParseFail
    ELSE IF s[i] < 32 THEN ParseFail
    ELSE ParseStringBody(s, i + 1, Append(acc, s[i]))

\* -?(0|[1-9][0-9]*)(\.[0-9]+)?([eE][+-]?[0-9]+)?
ParseNumber(s, i) ==
    LET a == IF i <= Len(s) /\ s[i] = 45 THEN i + 1 ELSE i
        intEnd == IF a > Len(s) THEN 0
                  ELSE IF s[a] = 48 THEN a + 1
                  ELSE IF s[a] \in 49..57 THEN RunEnd(s, a, DigitChars)
                  ELSE 0
        fracEnd == IF intEnd = 0 THEN 0
                   ELSE IF intEnd <= Len(s) /\ s[intEnd] = 46
                   THEN LET e == RunEnd(s, intEnd + 1, DigitChars)
                        IN  IF e > intEnd + 1 THEN e ELSE 0
                   ELSE intEnd
        expEnd == IF fracEnd = 0 THEN 0
                  ELSE IF fracEnd <= Len(s) /\ s[fracEnd] \in {69, 101}
                  THEN LET d == IF fracEnd + 1 <= Len(s)
                                    /\ s[fracEnd + 1] \in {43, 45}
                                THEN fracEnd + 2 ELSE fracEnd + 1
                           e == RunEnd(s, d, DigitChars)
                       IN  IF e > d THEN e ELSE 0
                  ELSE fracEnd
    IN  IF expEnd = 0 THEN ParseFail
        ELSE ParseOk(JNum(SubSeq(s, i, expEnd - 1)), expEnd)

RECURSIVE ParseValue(_, _)
RECURSIVE ParseElements(_, _, _)
RECURSIVE ParseMembers(_, _, _)

\* The elements of an array after "[" or ",", up to the closing "]".
ParseElements(s, i, acc) ==
    LET After(r, j) ==
            IF ~r.ok \/ j > Len(s) THEN ParseFail
            ELSE IF s[j] = 44 THEN ParseElements(s, j + 1, Append(acc, r.val))
            ELSE IF s[j] = 93 THEN ParseOk(JArr(Append(acc, r.val)), j + 1)
            ELSE ParseFail
        Element(r) == After(r, IF r.ok THEN RunEnd(s, r.pos, JsonWsChars) ELSE 0)
    IN  Element(ParseValue(s, RunEnd(s, i, JsonWsChars)))

\* The members of an object after "{" or ",", up to the closing "}".
ParseMembers(s, i, acc) ==
    LET After(key, r, j) ==
            IF ~r.ok \/ j > Len(s) THEN ParseFail
            ELSE IF s[j] = 44
                THEN ParseMembers(s, j + 1, Append(acc, <<key.val.v, r.val>>))
            ELSE IF s[j] = 125
                THEN ParseOk(JObj(Append(acc, <<key.val.v, r.val>>)), j + 1)
            ELSE ParseFail
        Member(key, r) ==
            After(key, r, IF r.ok THEN RunEnd(s, r.pos, JsonWsChars) ELSE 0)
        Colon(key, c) ==
            Member(key, IF key.ok /\ c <= Len(s) /\ s[c] = 58
                        THEN ParseValue(s, RunEnd(s, c + 1, JsonWsChars))
                        ELSE ParseFail)
        Key(key) ==
            Colon(key, IF key.ok THEN RunEnd(s, key.pos, JsonWsChars) ELSE 0)
        Start(k) ==
            Key(IF k <= Len(s) /\ s[k] = 34
                THEN ParseStringBody(s, k + 1, <<>>) ELSE ParseFail)
    IN  Start(RunEnd(s, i, JsonWsChars))

\* A value that starts at index i (white space already skipped).
ParseValue(s, i) ==
    IF i > Len(s) THEN ParseFail
    ELSE IF s[i] = 34 THEN ParseStringBody(s, i + 1, <<>>)
    ELSE IF s[i] = 91 THEN
        LET j == RunEnd(s, i + 1, JsonWsChars)
        IN  IF j <= Len(s) /\ s[j] = 93 THEN ParseOk(JArr(<<>>), j + 1)
            ELSE ParseElements(s, i + 1, <<>>)
    ELSE IF s[i] = 123 THEN
        LET j == RunEnd(s, i + 1, JsonWsChars)
        IN  IF j <= Len(s) /\ s[j] = 125 THEN ParseOk(JObj(<<>>), j + 1)
            ELSE ParseMembers(s, i + 1, <<>>)
    ELSE IF StartsWithAt(s, i, <<116, 114, 117, 101>>)
        THEN ParseOk(JLit("true"), i + 4)
    ELSE IF StartsWithAt(s, i, <<102, 97, 108, 115, 101>>)
        THEN ParseOk(JLit("false"), i + 5)
    ELSE IF StartsWithAt(s, i, <<110, 117, 108, 108>>)
        THEN ParseOk(JLit("null"), i + 4)
    ELSE IF s[i] = 45 \/ s[i] \in DigitChars THEN ParseNumber(s, i)
    ELSE ParseFail

\* JSON.parse(s): ok is FALSE where JSON.parse throws a SyntaxError.
JSONparse(s) ==
    LET Whole(r) ==
            IF r.ok /\ RunEnd(s, r.pos, JsonWsChars) = Len(s) + 1
            THEN [ok |-> TRUE, val |-> r.val]
            ELSE [ok |-> FALSE, val |-> JLit("null")]
    IN  Whole(ParseValue(s, RunEnd(s, 1, JsonWsChars)))

----------------------------------------------------------------------------
(* The answer normalisation of generateBatchQuestions (lines 284-313)      *)

QuestionTypes ==
    {"SINGLE_CHOICE", "MULTI_CHOICE", "TRUE_FALSE", "MATCHING", "ORDERING",
     "FILL_IN_BLANK", "SHORT_ANSWER", "NOUN_EXPLANATION", "ANALYSIS",
     "FLASHCARD"}

\* ['MULTI_CHOICE', 'ORDERING', 'MATCHING', 'FILL_IN_BLANK']
ArrayAnswerTypes == {"MULTI_CHOICE", "ORDERING", "MATCHING", "FILL_IN_BLANK"}

\* s.split(/[,，、]/): the pieces between the separators, empty ones kept
RECURSIVE SplitOn(_, _)
SplitOn(s, C) ==
    LET e == RunEnd(s, 1, (0..65535) \ C)
    IN  IF e > Len(s) THEN << s >>
        ELSE << SubSeq(s, 1, e - 1) >> \o SplitOn(Drop(s, e), C)

AnswerSplitChars == {44, 65292, 12289}

\* q.correctAnswer.split(/[,，、]/).map(s => s.trim())
CommaSplitFallback(u) ==
    LET Trimmed(pieces) == JArr([k \in 1..Len(pieces) |-> JStr(Trim(pieces[k]))])
    IN  Trimmed(SplitOn(u, AnswerSplitChars))

\* The test of line 290 without its second half: only a leading bracket
\* makes a string look like a list.
LooksLikeListNoComma(u) ==
    LET t == Trim(u) IN t # <<>> /\ t[1] = 91

\* q.correctAnswer.trim().startsWith('[') || q.correctAnswer.includes(',')
LooksLikeList(u) ==
    \/ LET t == Trim(u) IN t # <<>> /\ t[1] = 91
    \/ \E k \in 1..Len(u) : u[k] = 44

\* The inner try of lines 291-296 with its catch taken away: a failed parse
\* reaches the outer catch of line 303, which leaves cleanAnswer as it was.
ParseOrFallbackNoCatch(u) ==
    LET Try(p) == IF p.ok THEN p.val ELSE JStr(u)
    IN  Try(JSONparse(u))

\* lines 291-296
ParseOrFallback(u) ==
    LET Try(p) == IF p.ok THEN p.val ELSE CommaSplitFallback(u)
    IN  Try(JSONparse(u))

\* let cleanAnswer after lines 285-303, from q.type and q.correctAnswer
cleanAnswer(type, correctAnswer) ==
    IF type \in ArrayAnswerTypes /\ correctAnswer.t = "string"
    THEN IF LooksLikeList(correctAnswer.v)
         THEN ParseOrFallback(correctAnswer.v)
         ELSE JArr(<< correctAnswer >>)
    ELSE correctAnswer

----------------------------------------------------------------------------
(* Questions, log lines, promises                                          *)

\* One element of parsed.questions. options and explanation are copied to
\* the question as they are and are left out.
MkRaw(ty, text, answer) ==
    [type |-> ty, questionText |-> text, correctAnswer |-> answer]

\* The object of lines 305-312 with the shard index left out of the id.
MkQuestionNoBatch(batchIndex, index, q) ==
    [batch |-> 0,
     index |-> index,
     type |-> q.type,
     questionText |-> q.questionText,
     correctAnswer |-> cleanAnswer(q.type, q.correctAnswer)]

\* The object the map callback returns (lines 305-312) for the raw record q
\* at position index of shard batchIndex. The id is made of Date.now() and
\* of the two indices, which are kept.
MkQuestion(batchIndex, index, q) ==
    [batch |-> batchIndex,
     index |-> index,
     type |-> q.type,
     questionText |-> q.questionText,
     correctAnswer |-> cleanAnswer(q.type, q.correctAnswer)]

\* id: `q-${Date.now()}-${batchIndex}-${index}` (line 306) with the clock
\* left out: what tells two ids apart when the clock gives the same value.
QuestionId(q) == <<q.batch, q.index>>

\* parsed.questions.map(...) of lines 284-313
MapQuestions(batchIndex, raws) ==
    [k \in 1..Len(raws) |-> MkQuestion(batchIndex, k - 1, raws[k])]

\* One call of onLog(message, progress): the kind of message, the number it
\* carries (a shard or attempt number, 0 when none) and the progress.
LogLine(m, n, p) == [msg |-> m, arg |-> n, prog |-> p]

NoError == [kind |-> "none", batch |-> 0, call |-> 0]

\* No function is being followed on its own.
NoCall == [fn |-> "none"]

Pending == [state |-> "pending", value |-> <<>>, error |-> NoError]
Resolved(v) == [state |-> "resolved", value |-> v, error |-> NoError]
Rejected(e) == [state |-> "rejected", value |-> <<>>, error |-> e]

\* shuffle ? uniqueQuestions.sort(() => Math.random() - 0.5) : uniqueQuestions
ReturnValues(u, sh) == IF sh THEN Perms(u) ELSE {u}

----------------------------------------------------------------------------
(* Shard planning (lines 365-371)                                          *)

\* const currentBatch with the Math.min forgotten
currentBatchNoMin(rem, userBatchSize) == userBatchSize

\* const currentBatch = Math.min(remaining, userBatchSize)
currentBatch(rem, userBatchSize) == Min(rem, userBatchSize)

\* The while loop run to its end, for a shard size of at least 1.
RECURSIVE PlanFrom(_, _, _)
PlanFrom(rem, userBatchSize, acc) ==
    IF rem > 0
    THEN PlanFrom(rem - currentBatch(rem, userBatchSize), userBatchSize,
                  Append(acc, currentBatch(rem, userBatchSize)))
    ELSE acc

----------------------------------------------------------------------------
(* callWithRetry (lines 8-31)                                              *)

\* if (retries <= 0) one retry early
CwGivesUpEarly(retries) == retries <= 1

\* if (retries <= 0): the error is rethrown
CwGivesUp(retries) == retries <= 0

\* const attempt = 4 - retries
CwAttempt(retries) == 4 - retries

\* delay * 2 in the place of delay * 1.5
CwNextDelayDoubled(delay) == delay * 2

\* delay * 1.5, exact on the even delays the calls of this file reach
CwNextDelay(delay) == (delay * 3) \div 2

\* The error the k-th invocation of the backend call of shard i throws.
ApiError(i, k) == [kind |-> "api", batch |-> i, call |-> k]

----------------------------------------------------------------------------
(* generateExamQuestions: the run between two suspensions                  *)
(*                                                                         *)
(* JavaScript runs a task and the microtasks it queues to completion, so   *)
(* an action is everything that happens from one event (the call, a timer, *)
(* a backend response) to the next await of a timer or of the network.     *)
(* The operators below take the state as a record s and give the state     *)
(* after the lines they model; an action commits the last one.             *)

\* A shard generateBatchQuestions has not been called for. ctx is the
\* externalContext argument of the call, which the prompt of line 261 holds.
IdleShard ==
    [st |-> "idle", retries |-> 0, delay |-> 0, calls |-> 0,
     err |-> NoError, value |-> <<>>, ctx |-> ""]

\* generateBatchQuestions has called callWithRetry(fn, name, 3, 2000, log),
\* which has called fn: the first backend call is pending (lines 264-278).
FirstCall ==
    [st |-> "calling", retries |-> 3, delay |-> 2000, calls |-> 1,
     err |-> NoError, value |-> <<>>, ctx |-> ""]

Here ==
    [pc |-> pc, cur |-> cur, logs |-> logs,
     externalContext |-> externalContext, batchCounts |-> batchCounts,
     currentProgress |-> currentProgress, questions |-> questions,
     shards |-> shards, result |-> result, qi |-> qi,
     uniqueQuestions |-> uniqueQuestions,
     acceptedFingerprints |-> acceptedFingerprints]

\* const log = (msg, prog) => onLog && onLog(msg, prog), with onLog given
log(s, m, n, p) == [s EXCEPT !.logs = Append(@, LogLine(m, n, p))]

\* The promise of the run settles; nothing of the function runs after it.
Settle(s, r) == [s EXCEPT !.result = r, !.pc = "done"]

\* Math.round(a / b) for a >= 0 and b > 0
RoundDiv(a, b) == (2 * a + b) \div (2 * b)

\* Lines 436-504: cleaning, deduplication, the closing log lines, return.
Finish(s) ==
    LET Return(s3, d) == Settle(log(s3, "success", 0, 100), Resolved(d.unique))
        Report(s2, d) ==
            Return(IF Len(d.unique) < Len(d.questions)
                   THEN log(s2, "filtered", Len(d.questions) - Len(d.unique), 98)
                   ELSE s2, d)
        Scanned(s1, d) ==
            Report([s1 EXCEPT !.questions = d.questions,
                              !.uniqueQuestions = d.unique,
                              !.acceptedFingerprints = d.fps,
                              !.qi = Len(d.questions)], d)
        Scan(s1) == Scanned(s1, DedupFrom(s1.questions, 1, <<>>, <<>>))
    IN  Scan(log(s, "dedup", 0, 95))

\* generateBatchQuestions called with "" in the place of externalContext.
LaunchShardNoContext(s, i) == [s EXCEPT !.shards[i] = FirstCall]

\* generateBatchQuestions(parts, batchCounts[i], ..., externalContext, i,
\* ...) is called (lines 390-399, 417-426).
LaunchShard(s, i) ==
    [s EXCEPT !.shards[i] = [FirstCall EXCEPT !.ctx = s.externalContext]]

\* results.flat(): the shards' values in index order
RECURSIVE FlatFrom(_, _, _)
FlatFrom(sh, i, n) ==
    IF i >= n THEN <<>> ELSE sh[i].value \o FlatFrom(sh, i + 1, n)

\* Lines 432-433 with the results combined last shard first.
JoinResolvedLastFirst(s) ==
    Finish([s EXCEPT
              !.questions =
                  IF Len(s.batchCounts) = 0 THEN <<>>
                  ELSE s.shards[Len(s.batchCounts) - 1].value
                          \o FlatFrom(s.shards, 0, Len(s.batchCounts) - 1),
              !.currentProgress = 90])

\* Lines 432-433, then the rest of the function.
JoinResolved(s) ==
    Finish([s EXCEPT !.questions = FlatFrom(s.shards, 0, Len(s.batchCounts)),
                     !.currentProgress = 90])

\* The shard whose rejection Promise.all takes when it is called on
\* promises of which some are rejected already: it subscribes to them in
\* index order, and their reactions run in that order.
FirstRejectedByIndex(sh) ==
    CHOOSE i \in DOMAIN sh :
        sh[i].st = "rejected"
        /\ \A j \in DOMAIN sh : sh[j].st = "rejected" => i <= j

\* Promise.all replaced by a join that waits for every shard to resolve.
JoinStartWaitAll(s) ==
    IF \A i \in DOMAIN s.shards : s.shards[i].st = "resolved"
    THEN JoinResolved(s)
    ELSE [s EXCEPT !.pc = "joining"]

\* await Promise.all(batchPromises) (line 431)
JoinStart(s) ==
    IF \E i \in DOMAIN s.shards : s.shards[i].st = "rejected"
    THEN Settle(s, Rejected(s.shards[FirstRejectedByIndex(s.shards)].err))
    ELSE IF \A i \in DOMAIN s.shards : s.shards[i].st = "resolved"
    THEN JoinResolved(s)
    ELSE [s EXCEPT !.pc = "joining"]

\* The launch loop leaving for the join as soon as a launched shard has
\* rejected, the later shards not launched.
RECURSIVE ParLaunchStopOnFailure(_, _)
ParLaunchStopOnFailure(s, i) ==
    LET Launched(s1) ==
            IF i + 1 < Len(s.batchCounts)
            THEN IF cfg.userRequestDelay > 0
                 THEN [s1 EXCEPT !.pc = "launch_sleep", !.cur = i + 1]
                 ELSE ParLaunchStopOnFailure(s1, i + 1)
            ELSE JoinStart(log(s1, "all-launched", 0, 80))
    IN  IF \E j \in DOMAIN s.shards : s.shards[j].st = "rejected"
        THEN JoinStart(s)
        ELSE Launched(IF i < Len(s.batchCounts)
                      THEN LaunchShard(log(s, "shard-start", i + 1,
                                           s.currentProgress), i)
                      ELSE s)

\* Lines 416-427 for shard i, then the loop up to its next sleep or, after
\* the last shard, lines 430-431.
RECURSIVE ParLaunch(_, _)
ParLaunch(s, i) ==
    LET Launched(s1) ==
            IF i + 1 < Len(s.batchCounts)
            THEN IF cfg.userRequestDelay > 0
                 THEN [s1 EXCEPT !.pc = "launch_sleep", !.cur = i + 1]
                 ELSE ParLaunch(s1, i + 1)
            ELSE JoinStart(log(s1, "all-launched", 0, 80))
    IN  Launched(IF i < Len(s.batchCounts)
                 THEN LaunchShard(log(s, "shard-start", i + 1,
                                      s.currentProgress), i)
                 ELSE s)

\* The else branch of line 405: the loop of line 409 from its first index
\* (with no shard it has no iteration).
ParallelBranch(s) ==
    ParLaunch(log(s, "staggered-launch", Len(s.batchCounts),
                  s.currentProgress), 0)

\* Lines 388-399 with the await of line 390 taken away: the loop goes on
\* to call generateBatchQuestions for every later shard as well.
SerialLaunchAll(s, i) ==
    [log(s, "shard-start", i + 1, s.currentProgress)
        EXCEPT !.shards = [j \in DOMAIN s.shards |->
                              IF j >= i THEN FirstCall ELSE s.shards[j]],
               !.pc = "serial_await", !.cur = i]

\* Lines 388-399 for shard i.
SerialLaunch(s, i) ==
    [LaunchShard(log(s, "shard-start", i + 1, s.currentProgress), i)
        EXCEPT !.pc = "serial_await", !.cur = i]

\* The for statement of line 382 at index i.
SerialIter(s, i) ==
    IF i >= Len(s.batchCounts) THEN Finish(s)
    ELSE IF i > 0 /\ cfg.userRequestDelay > 0
    THEN [log(s, "serial-wait", 0, s.currentProgress)
            EXCEPT !.pc = "serial_sleep", !.cur = i]
    ELSE SerialLaunch(s, i)

\* Lines 401-403 after shard i gave batchQuestions, then the next iteration.
SerialAfter(s, i, batchQuestions) ==
    LET Report(s1) ==
            SerialIter(log(s1, "progress", Len(s1.questions),
                           s1.currentProgress), i + 1)
    IN  Report([s EXCEPT
                  !.questions = @ \o batchQuestions,
                  !.currentProgress =
                      40 + RoundDiv(50 * (i + 1), Len(s.batchCounts))])

\* Lines 358-380 once fetchExternalContext has returned ctx.
AfterEnrich(s, ctx) ==
    LET Schedule(s3) ==
            IF cfg.shardingMode = "SERIAL"
            THEN SerialIter(s3, 0)
            ELSE ParallelBranch(s3)
        Planned(s1, plan) ==
            Schedule([log([s1 EXCEPT !.batchCounts = plan],
                          "config", Len(plan), 35)
                        EXCEPT !.currentProgress = 40,
                               !.questions = <<>>,
                               !.shards = [i \in 0..(Len(plan) - 1) |->
                                              IdleShard]])
    IN  Planned(log([s EXCEPT !.externalContext = ctx], "sharding", 0, 30),
                PlanFrom(cfg.count, cfg.userBatchSize, <<>>))

\* The onBatchLog each mode hands to generateBatchQuestions (lines 398, 425).
onBatchLog(s, i, attempt) ==
    IF cfg.shardingMode = "SERIAL" \/ i = 0
    THEN log(s, "retry", attempt, s.currentProgress)
    ELSE s

\* A rejection of shard i swallowed by the SERIAL loop, which goes on as if
\* the shard had given no questions.
ShardRejectedSwallowed(s, i, err) ==
    LET Told(s1) ==
            IF s.pc = "serial_await" THEN SerialAfter(s1, i, <<>>)
            ELSE IF s.pc = "joining" THEN Settle(s1, Rejected(err))
            ELSE s1
    IN  Told([s EXCEPT !.shards[i].st = "rejected", !.shards[i].err = err])

\* The promise of shard i rejects with err. The run is waiting for it in
\* SERIAL mode, and in PARALLEL mode once Promise.all has been called; the
\* catch of line 506 rethrows.
ShardRejected(s, i, err) ==
    LET Told(s1) ==
            IF s.pc \in {"serial_await", "joining"}
            THEN Settle(s1, Rejected(err))
            ELSE s1
    IN  Told([s EXCEPT !.shards[i].st = "rejected", !.shards[i].err = err])

\* The promise of shard i resolves with qs, and in PARALLEL mode its
\* questions are pushed to the list at once instead of after the join.
ShardResolvedPushesEarly(s, i, qs) ==
    LET Told(s1) ==
            IF s.pc = "serial_await" THEN SerialAfter(s1, i, qs)
            ELSE IF s.pc = "joining"
                    /\ \A j \in DOMAIN s1.shards : s1.shards[j].st = "resolved"
            THEN JoinResolved(s1)
            ELSE [s1 EXCEPT !.questions = @ \o qs]
    IN  Told([s EXCEPT !.shards[i].st = "resolved", !.shards[i].value = qs])

\* The promise of shard i resolves with qs.
ShardResolved(s, i, qs) ==
    LET Told(s1) ==
            IF s.pc = "serial_await" THEN SerialAfter(s1, i, qs)
            ELSE IF s.pc = "joining"
                    /\ \A j \in DOMAIN s1.shards : s1.shards[j].st = "resolved"
            THEN JoinResolved(s1)
            ELSE s1
    IN  Told([s EXCEPT !.shards[i].st = "resolved", !.shards[i].value = qs])

\* The catch of callWithRetry (lines 17-29) up to its sleep, on the error
\* of the pending call of shard i.
CwCatch(s, i) ==
    IF CwGivesUp(s.shards[i].retries)
    THEN ShardRejected(s, i, ApiError(i, s.shards[i].calls))
    ELSE [onBatchLog(s, i, CwAttempt(s.shards[i].retries))
            EXCEPT !.shards[i].st = "backoff"]

\* Line 29 left out: after the sleep nothing is called and the promise of
\* callWithRetry stays pending.
CwRetryStuck(sh) == sh

\* Line 29 after the sleep: the recursive call invokes fn again.
CwRetry(sh) ==
    [sh EXCEPT !.st = "calling", !.retries = @ - 1,
               !.delay = CwNextDelay(@), !.calls = @ + 1]

\* What the step to the state s adds to events: the shard whose promise
\* settles in it, then the shards generateBatchQuestions is called for in
\* it, in index order.
NewEvents(s) ==
    LET idx == [k \in 1..Len(s.batchCounts) |-> k - 1]
        Settles(i) ==
            /\ i \in DOMAIN shards
            /\ shards[i].st \notin {"resolved", "rejected"}
            /\ s.shards[i].st \in {"resolved", "rejected"}
        Launches(i) ==
            /\ s.shards[i].st # "idle"
            /\ i \notin DOMAIN shards \/ shards[i].st = "idle"
        Tagged(is, launch) ==
            [k \in 1..Len(is) |->
                <<IF launch THEN "launched" ELSE s.shards[is[k]].st, is[k]>>]
    IN  Tagged(SelectSeq(idx, Settles), FALSE)
            \o Tagged(SelectSeq(idx, Launches), TRUE)

\* The state becomes s; the value of a resolved run is shuffled on return.
Commit(s) ==
    /\ pc' = s.pc
    /\ cur' = s.cur
    /\ logs' = s.logs
    /\ externalContext' = s.externalContext
    /\ batchCounts' = s.batchCounts
    /\ currentProgress' = s.currentProgress
    /\ questions' = s.questions
    /\ shards' = s.shards
    /\ qi' = s.qi
    /\ uniqueQuestions' = s.uniqueQuestions
    /\ acceptedFingerprints' = s.acceptedFingerprints
    /\ IF s.result.state = "resolved" /\ result.state = "pending"
       THEN \E v \in ReturnValues(s.result.value, cfg.shuffle) :
                result' = Resolved(v)
       ELSE result' = s.result
    /\ failed' = IF \E i \in DOMAIN s.shards :
                        s.shards[i].st = "rejected" /\ shards[i].st # "rejected"
                  THEN Append(failed,
                              CHOOSE i \in DOMAIN s.shards :
                                 /\ s.shards[i].st = "rejected"
                                 /\ shards[i].st # "rejected")
                  ELSE failed
    /\ events' = IF result.state = "pending"
                  THEN events \o NewEvents(s)
                  ELSE events
    /\ UNCHANGED <<cfg, remaining, rawQuestions, mapped, call>>

----------------------------------------------------------------------------
(* The run of generateExamQuestions: specification Spec                    *)

MaxShards == 2

\* Question texts the model's backend and the deduplication scan draw from.
Letters11a == <<97, 98, 99, 100, 101, 102, 103, 104, 105, 106, 107>>
Letters11b == <<108, 109, 110, 111, 112, 113, 114, 115, 116, 117, 118>>
Upper15 == <<65, 66, 67, 68, 69, 70, 71, 72, 73, 74, 75, 76, 77, 78, 79>>
Digits10 == <<48, 49, 50, 51, 52, 53, 54, 55, 56, 57>>
\* "什么是光合作用？", "请问什么是光合作用？", "完全不同的问题内容测试一下"
TextPhotosynthesis ==
    <<20160, 20040, 26159, 20809, 21512, 20316, 29992, 65311>>
TextAskPhotosynthesis ==
    <<35831, 38382, 20160, 20040, 26159, 20809, 21512, 20316, 29992, 65311>>
TextDifferent ==
    <<23436, 20840, 19981, 21516, 30340, 38382, 39064, 20869, 23481, 27979,
      35797, 19968, 19979>>

\* The raw records the model's backend answers with: a shard asked for n
\* questions gets n consecutive records of the pool, from one of its first
\* two records on.
\* '["A","B"]', "True", "A"
RawPool ==
    << MkRaw("MULTI_CHOICE", <<49, 46, 32>> \o Letters11a,
             JStr(<<91, 34, 65, 34, 44, 34, 66, 34, 93>>)),
       MkRaw("TRUE_FALSE", TextDifferent, JStr(<<84, 114, 117, 101>>)),
       MkRaw("FILL_IN_BLANK", <<81, 51, 58, 32>> \o Letters11a \o <<63>>,
             JStr(<<65>>)),
       MkRaw("SHORT_ANSWER", Upper15 \o <<120>>, JStr(<<65, 44, 66>>)) >>

ResponseOffsets == 0..1

Responses(n) == { SubSeq(RawPool, 1 + o, n + o) : o \in ResponseOffsets }

SchedBatchSizes == {2}
RequestDelays == {0, 1000}
ShardingModes == {"SERIAL", "PARALLEL"}
SearchEngines == {"google_native", "tavily"}

\* The counts that make 0..MaxShards shards, the last one not full.
SchedCounts == {0} \cup { b * n - 1 : b \in SchedBatchSizes, n \in 1..MaxShards }

\* A run with materials to enrich is followed for plans of at most one shard:
\* the enrichment is over before the first shard is planned. A run that
\* shuffles is followed for plans of at most two shards: the shuffle acts on
\* the combined list, whatever the number of shards it came from.
Init ==
    /\ cfg \in [count : SchedCounts,
                userBatchSize : SchedBatchSizes,
                userRequestDelay : RequestDelays,
                shardingMode : ShardingModes,
                materials : {0, 1},
                activeEngine : SearchEngines,
                shuffle : BOOLEAN]
    /\ cfg.materials = 0 \/ cfg.count <= cfg.userBatchSize
    /\ cfg.shuffle => cfg.count <= 2 * cfg.userBatchSize
    /\ pc = "init"
    /\ cur = 0
    /\ logs = <<>>
    /\ externalContext = ""
    /\ batchCounts = <<>>
    /\ remaining = 0
    /\ currentProgress = 0
    /\ questions = <<>>
    /\ shards = <<>>
    /\ result = Pending
    /\ qi = 0
    /\ uniqueQuestions = <<>>
    /\ acceptedFingerprints = <<>>
    /\ rawQuestions = <<>>
    /\ mapped = <<>>
    /\ call = NoCall
    /\ failed = <<>>
    /\ events = <<>>

\* generateExamQuestions is called: lines 346-356, and fetchExternalContext
\* up to its first backend call (lines 40-72) or its early return.
\* The call without the test of line 43: the enrichment is entered with no
\* materials as well.
StartRunNoShortCircuit ==
    /\ pc = "init"
    /\ Commit([log(log(log(Here, "engine-start", 0, 5),
                       "search-engine", 0, 12), "scan-keywords", 0, 15)
                 EXCEPT !.pc = "kw_call"])

StartRun ==
    /\ pc = "init"
    /\ Commit(IF cfg.materials = 0
              THEN AfterEnrich(log(Here, "engine-start", 0, 5), "")
              ELSE [log(log(log(Here, "engine-start", 0, 5),
                            "search-engine", 0, 12), "scan-keywords", 0, 15)
                      EXCEPT !.pc = "kw_call"])

\* The keyword call throws and the catch of lines 157-160 logs and throws
\* again: the await of line 356 rejects the run.
KeywordCallFailsRethrown ==
    /\ pc = "kw_call"
    /\ Commit(Settle(log(Here, "search-failed", 0, 25),
                     Rejected([kind |-> "enrich", batch |-> 0, call |-> 0])))

\* The keyword call throws: the catch of lines 157-160.
KeywordCallFails ==
    /\ pc = "kw_call"
    /\ Commit(AfterEnrich(log(Here, "search-failed", 0, 25), ""))

\* The keyword call answers NONE, nothing, or completeness prose
\* (lines 95-107).
KeywordCallNone ==
    /\ pc = "kw_call"
    /\ Commit(AfterEnrich(log(Here, "skip-search", 0, 20), ""))

\* The keyword call answers keywords: lines 109-141, up to the search call.
KeywordCallKeywords ==
    /\ pc = "kw_call"
    /\ Commit([log(log(Here, "keywords", 0, 18), "searching", 0, 20)
                 EXCEPT !.pc = "search_call"])

\* The grounded search call throws (the search providers catch their own
\* errors and return []).
SearchCallFails ==
    /\ pc = "search_call"
    /\ cfg.activeEngine = "google_native"
    /\ Commit(AfterEnrich(log(Here, "search-failed", 0, 25), ""))

\* The search gives no context: line 161.
SearchCallEmpty ==
    /\ pc = "search_call"
    /\ Commit(AfterEnrich(Here, ""))

\* The search gives a context: lines 149-156.
SearchCallFound ==
    /\ pc = "search_call"
    /\ Commit(AfterEnrich(log(Here, "search-done", 0, 25), "banner"))

\* The timer of line 385 fires.
SerialSleepDone ==
    /\ pc = "serial_sleep"
    /\ Commit(SerialLaunch(Here, cur))

\* The timer of line 413 fires.
LaunchSleepDone ==
    /\ pc = "launch_sleep"
    /\ Commit(ParLaunch(Here, cur))

\* The backend call of shard i is pending and is dropped once the run has
\* settled: its response is never delivered.
CallingUntilSettled(i) ==
    i \in DOMAIN shards /\ shards[i].st = "calling" /\ result.state = "pending"

Calling(i) == i \in DOMAIN shards /\ shards[i].st = "calling"

\* The backend call of shard i rejects.
BackendError(i) ==
    /\ Calling(i)
    /\ Commit(CwCatch(Here, i))

\* The test of line 281 moved into the function callWithRetry calls: a
\* response without text is an error like any other and is retried.
BackendNoTextRetried(i) ==
    /\ Calling(i)
    /\ Commit(IF CwGivesUp(shards[i].retries)
              THEN ShardRejected(Here, i,
                     [kind |-> "notext", batch |-> i, call |-> shards[i].calls])
              ELSE [onBatchLog(Here, i, CwAttempt(shards[i].retries))
                      EXCEPT !.shards[i].st = "backoff"])

\* The backend call of shard i returns a response without text (line 281).
BackendNoText(i) ==
    /\ Calling(i)
    /\ Commit(ShardRejected(Here, i,
                [kind |-> "notext", batch |-> i, call |-> shards[i].calls]))

\* The backend call of shard i returns text that JSON.parse refuses, or
\* that holds no questions array (lines 283-284).
BackendBadJson(i) ==
    /\ Calling(i)
    /\ Commit(ShardRejected(Here, i,
                [kind |-> "syntax", batch |-> i, call |-> shards[i].calls]))

\* The backend call of shard i returns questions (lines 280-313).
BackendOk(i) ==
    /\ Calling(i)
    /\ \E raws \in Responses(batchCounts[i + 1]) :
          Commit(ShardResolved(Here, i, MapQuestions(i, raws)))

\* The timer of line 28 fires for shard i.
RetrySleepDone(i) ==
    /\ i \in DOMAIN shards
    /\ shards[i].st = "backoff"
    /\ Commit([Here EXCEPT !.shards[i] = CwRetry(@)])

Next ==
    \/ StartRun
    \/ KeywordCallFails
    \/ KeywordCallNone
    \/ KeywordCallKeywords
    \/ SearchCallFails
    \/ SearchCallEmpty
    \/ SearchCallFound
    \/ SerialSleepDone
    \/ LaunchSleepDone
    \/ \E i \in 0..(MaxShards - 1) :
          \/ BackendError(i)
          \/ BackendNoText(i)
          \/ BackendBadJson(i)
          \/ BackendOk(i)
          \/ RetrySleepDone(i)

Spec == Init /\ [][Next]_vars

\* Every call that is made is answered and every timer that is set fires.
Fairness ==
    /\ WF_vars(StartRun)
    /\ WF_vars(KeywordCallFails \/ KeywordCallNone \/ KeywordCallKeywords)
    /\ WF_vars(SearchCallFails \/ SearchCallEmpty \/ SearchCallFound)
    /\ WF_vars(SerialSleepDone)
    /\ WF_vars(LaunchSleepDone)
    /\ \A i \in 0..(MaxShards - 1) :
          /\ WF_vars(BackendError(i) \/ BackendNoText(i)
                        \/ BackendBadJson(i) \/ BackendOk(i))
          /\ WF_vars(RetrySleepDone(i))

SpecFair == Spec /\ Fairness

\* The runs in which the enrichment comes before two shards: runs with
\* materials are followed for plans of up to two shards, without shuffle.
CtxInit ==
    /\ cfg \in [count : SchedCounts,
                userBatchSize : SchedBatchSizes,
                userRequestDelay : RequestDelays,
                shardingMode : ShardingModes,
                materials : {0, 1},
                activeEngine : SearchEngines,
                shuffle : {FALSE}]
    /\ cfg.materials = 0 \/ cfg.count <= 2 * cfg.userBatchSize
    /\ pc = "init"
    /\ cur = 0
    /\ logs = <<>>
    /\ externalContext = ""
    /\ batchCounts = <<>>
    /\ remaining = 0
    /\ currentProgress = 0
    /\ questions = <<>>
    /\ shards = <<>>
    /\ result = Pending
    /\ qi = 0
    /\ uniqueQuestions = <<>>
    /\ acceptedFingerprints = <<>>
    /\ rawQuestions = <<>>
    /\ mapped = <<>>
    /\ call = NoCall
    /\ failed = <<>>
    /\ events = <<>>

SpecCtx == CtxInit /\ [][Next]_vars

----------------------------------------------------------------------------
(* The deduplication scan, one iteration a step: specification SpecDedup   *)

MaxQuestions == 3

\* The texts of the questions the scan is run on.
DedupTexts ==
    { TextPhotosynthesis, TextAskPhotosynthesis, TextDifferent,
      <<49, 46, 32>> \o TextDifferent,              \* "1. " and the third
      Letters11a, Letters11b, Letters11a \o Letters11b,
      <<81, 51, 58, 32>> \o Letters11a \o <<63>>,   \* "Q3: abcdefghijk?"
      Upper15 \o <<120>>, Upper15 \o <<32, 121>>,   \* "A..Ox", "A..O y"
      Digits10, <<90>> \o Digits10,                 \* "0123456789", "Z0123456789"
      <<65311, 32>> }                               \* "？ "

RECURSIVE SeqsUpTo(_, _)
SeqsUpTo(S, n) ==
    IF n = 0 THEN { <<>> }
    ELSE LET shorter == SeqsUpTo(S, n - 1)
         IN  shorter \cup { Append(q, x) : q \in shorter, x \in S }

\* The variables the specifications of the parts leave alone.
IdleConfig ==
    [count |-> 0, userBatchSize |-> 10, userRequestDelay |-> 1000,
     shardingMode |-> "SERIAL", materials |-> 0,
     activeEngine |-> "google_native", shuffle |-> FALSE]

\* The state at line 439, all shards done: questions holds what they gave.
DedupInit ==
    /\ \E sh \in BOOLEAN : cfg = [IdleConfig EXCEPT !.shuffle = sh]
    /\ pc = "dedup"
    /\ \E ts \in SeqsUpTo(DedupTexts, MaxQuestions) :
          questions =
              [k \in 1..Len(ts) |->
                  MkQuestion(0, k - 1,
                             MkRaw("SHORT_ANSWER", ts[k], JStr(<<65>>)))]
    /\ qi = 0
    /\ uniqueQuestions = <<>>
    /\ acceptedFingerprints = <<>>
    /\ logs = << LogLine("dedup", 0, 95) >>
    /\ result = Pending
    /\ cur = 0
    /\ externalContext = ""
    /\ batchCounts = <<>>
    /\ remaining = 0
    /\ currentProgress = 90
    /\ shards = <<>>
    /\ rawQuestions = <<>>
    /\ mapped = <<>>
    /\ call = NoCall
    /\ failed = <<>>
    /\ events = <<>>

\* One iteration of the loop of line 447.
DedupStep ==
    /\ pc = "dedup"
    /\ qi < Len(questions)
    /\ LET Assign(r) ==
               /\ questions' = [questions EXCEPT ![qi + 1] = r.q]
               /\ uniqueQuestions' = r.unique
               /\ acceptedFingerprints' = r.fps
       IN  Assign(DedupIteration(questions[qi + 1], uniqueQuestions,
                                 acceptedFingerprints))
    /\ qi' = qi + 1
    /\ UNCHANGED <<cfg, pc, cur, logs, externalContext, batchCounts, remaining,
                   currentProgress, shards, result, rawQuestions, mapped,
                   call, failed, events>>

\* Lines 497-504 after the loop.
DedupReturn ==
    /\ pc = "dedup"
    /\ qi = Len(questions)
    /\ logs' = logs
         \o (IF Len(uniqueQuestions) < Len(questions)
             THEN << LogLine("filtered",
                             Len(questions) - Len(uniqueQuestions), 98) >>
             ELSE <<>>)
         \o << LogLine("success", 0, 100) >>
    /\ \E v \in ReturnValues(uniqueQuestions, cfg.shuffle) :
          result' = Resolved(v)
    /\ pc' = "done"
    /\ UNCHANGED <<cfg, cur, externalContext, batchCounts, remaining,
                   currentProgress, questions, shards, qi, uniqueQuestions,
                   acceptedFingerprints, rawQuestions, mapped,
                   call, failed, events>>

DedupNext == DedupStep \/ DedupReturn

SpecDedup == DedupInit /\ [][DedupNext]_vars

----------------------------------------------------------------------------
(* Shard planning, one iteration a step: specification SpecPlan            *)

MaxCount == 8
MaxBatchSize == 4

\* The requested counts and the stored shard sizes the loop is run on; 25
\* and 10 are the documented example. A size below 1 never lets the loop
\* end, and the model stops following it after PlanSteps iterations.
PlanCounts == (0..MaxCount) \cup {25}
PlanBatchSizes == ((0 - 1)..MaxBatchSize) \cup {10}
PlanSteps == 1 + CHOOSE c \in PlanCounts : \A d \in PlanCounts : d <= c

PlanInit ==
    /\ \E c \in PlanCounts, b \in PlanBatchSizes :
          /\ cfg = [IdleConfig EXCEPT !.count = c, !.userBatchSize = b]
          /\ remaining = c
    /\ pc = "plan"
    /\ batchCounts = <<>>
    /\ cur = 0
    /\ logs = <<>>
    /\ externalContext = ""
    /\ currentProgress = 0
    /\ questions = <<>>
    /\ shards = <<>>
    /\ result = Pending
    /\ qi = 0
    /\ uniqueQuestions = <<>>
    /\ acceptedFingerprints = <<>>
    /\ rawQuestions = <<>>
    /\ mapped = <<>>
    /\ call = NoCall
    /\ failed = <<>>
    /\ events = <<>>

\* The body of the while loop (lines 368-370).
PlanStep ==
    /\ pc = "plan"
    /\ remaining > 0
    /\ Len(batchCounts) < PlanSteps
    /\ batchCounts' =
          Append(batchCounts, currentBatch(remaining, cfg.userBatchSize))
    /\ remaining' = remaining - currentBatch(remaining, cfg.userBatchSize)
    /\ UNCHANGED <<cfg, pc, cur, logs, externalContext, currentProgress,
                   questions, shards, result, qi, uniqueQuestions,
                   acceptedFingerprints, rawQuestions, mapped,
                   call, failed, events>>

\* The loop condition fails (line 367).
PlanDone ==
    /\ pc = "plan"
    /\ ~(remaining > 0)
    /\ pc' = "planned"
    /\ UNCHANGED <<cfg, cur, logs, externalContext, batchCounts, remaining,
                   currentProgress, questions, shards, result, qi,
                   uniqueQuestions, acceptedFingerprints, rawQuestions, mapped,
                   call, failed, events>>

PlanNext == PlanStep \/ PlanDone

SpecPlan == PlanInit /\ [][PlanNext]_vars

\* The loop is synchronous code: it goes on as long as it can.
SpecPlanFair == SpecPlan /\ WF_vars(PlanNext)

----------------------------------------------------------------------------
(* The map of lines 284-313, one record a step: specification SpecNorm     *)

MaxAnswerLen == 3
MaxRecords == 2

\* The units the raw correctAnswer strings are made of:  [ ] " , A 1 space ，
AnswerChars == {91, 93, 34, 44, 65, 49, 32, 65292}

\* '"A,B"' with its quotes, '{"a":1,"b":2}', 'A, B、C', '["A","B"]', ' [A',
\* 'A,B'
AnswerExamples ==
    { <<34, 65, 44, 66, 34>>,
      <<65, 44, 66>>,
      <<123, 34, 97, 34, 58, 49, 44, 34, 98, 34, 58, 50, 125>>,
      <<65, 44, 32, 66, 12289, 67>>,
      <<91, 34, 65, 34, 44, 34, 66, 34, 93>>,
      <<32, 91, 65>> }

AnswerStrings == SeqsUpTo(AnswerChars, MaxAnswerLen) \cup AnswerExamples

\* Records that come one after the other in a response; the answer of the
\* last two is not a string (an array already, and a field left out).
NormPool ==
    { RawPool[k] : k \in DOMAIN RawPool }
        \cup { MkRaw("ORDERING", Letters11a, JStr(<<65, 44, 32, 66, 12289, 67>>)),
               MkRaw("MATCHING", Letters11b, JArr(<< JStr(<<65>>) >>)),
               MkRaw("SINGLE_CHOICE", Digits10, JLit("undefined")) }

\* parsed.questions at line 284: one record of any type with any of the
\* answer strings, or up to MaxRecords records of the pool.
NormInit ==
    /\ \/ \E ty \in QuestionTypes, a \in AnswerStrings :
             rawQuestions = << MkRaw(ty, Letters11a, JStr(a)) >>
       \/ rawQuestions \in SeqsUpTo(NormPool, MaxRecords)
    /\ mapped = <<>>
    /\ call = NoCall
    /\ failed = <<>>
    /\ events = <<>>
    /\ pc = "norm"
    /\ cfg = IdleConfig
    /\ cur = 0
    /\ logs = <<>>
    /\ externalContext = ""
    /\ batchCounts = <<>>
    /\ remaining = 0
    /\ currentProgress = 40
    /\ questions = <<>>
    /\ shards = <<>>
    /\ result = Pending
    /\ qi = 0
    /\ uniqueQuestions = <<>>
    /\ acceptedFingerprints = <<>>

\* The map callback runs on the next record (lines 285-312).
NormStep ==
    /\ pc = "norm"
    /\ Len(mapped) < Len(rawQuestions)
    /\ mapped' = Append(mapped,
                        MkQuestion(cur, Len(mapped),
                                   rawQuestions[Len(mapped) + 1]))
    /\ UNCHANGED <<cfg, pc, cur, logs, externalContext, batchCounts, remaining,
                   currentProgress, questions, shards, result, qi,
                   uniqueQuestions, acceptedFingerprints, rawQuestions,
                   call, failed, events>>

\* map returns and generateBatchQuestions resolves with the array.
NormReturn ==
    /\ pc = "norm"
    /\ Len(mapped) = Len(rawQuestions)
    /\ pc' = "normed"
    /\ UNCHANGED <<cfg, cur, logs, externalContext, batchCounts, remaining,
                   currentProgress, questions, shards, result, qi,
                   uniqueQuestions, acceptedFingerprints, rawQuestions, mapped,
                   call, failed, events>>

NormNext == NormStep \/ NormReturn

SpecNorm == NormInit /\ [][NormNext]_vars

----------------------------------------------------------------------------
(* The PARALLEL branch with a shard still to launch while two are running: *)
(* specification SpecJoin                                                  *)

MaxJoinShards == 3

\* generateExamQuestions is called in PARALLEL mode, without materials, for
\* a count that makes MaxJoinShards shards.
JoinInit ==
    /\ \E b \in SchedBatchSizes, d \in RequestDelays :
          cfg = [count |-> b * MaxJoinShards - 1,
                 userBatchSize |-> b,
                 userRequestDelay |-> d,
                 shardingMode |-> "PARALLEL",
                 materials |-> 0,
                 activeEngine |-> "google_native",
                 shuffle |-> FALSE]
    /\ pc = "init"
    /\ cur = 0
    /\ logs = <<>>
    /\ externalContext = ""
    /\ batchCounts = <<>>
    /\ remaining = 0
    /\ currentProgress = 0
    /\ questions = <<>>
    /\ shards = <<>>
    /\ result = Pending
    /\ qi = 0
    /\ uniqueQuestions = <<>>
    /\ acceptedFingerprints = <<>>
    /\ rawQuestions = <<>>
    /\ mapped = <<>>
    /\ call = NoCall
    /\ failed = <<>>
    /\ events = <<>>

JoinNext ==
    \/ StartRun
    \/ LaunchSleepDone
    \/ \E i \in 0..(MaxJoinShards - 1) :
          \/ BackendError(i)
          \/ BackendNoText(i)
          \/ BackendBadJson(i)
          \/ BackendOk(i)
          \/ RetrySleepDone(i)

SpecJoin == JoinInit /\ [][JoinNext]_vars

----------------------------------------------------------------------------
(* callWithRetry on its own, for any number of retries:                    *)
(* specification SpecRetry                                                 *)

MaxRetries == 4

\* The delays callWithRetry is called with: 2000 as at lines 276 and 797,
\* and 32, which stays whole under five multiplications by 1.5.
InitialDelays == {2000, 32}

\* The catch of lines 17-28 with the timer of line 28 left out: the next
\* call is made at once.
RetryCatchNoSleep(c) ==
    IF CwGivesUp(c.sh.retries)
    THEN [c EXCEPT !.sh.st = "rejected", !.sh.err = ApiError(0, c.sh.calls)]
    ELSE [c EXCEPT !.log = IF c.onLog
                           THEN Append(@, CwAttempt(c.sh.retries))
                           ELSE @,
                   !.sh = CwRetry(@)]

\* The catch of lines 17-28 on the error of the pending call: the error is
\* thrown again, or the line is logged (when onLog is given) and the timer
\* of line 28 is set to delay.
RetryCatch(c) ==
    IF CwGivesUp(c.sh.retries)
    THEN [c EXCEPT !.sh.st = "rejected", !.sh.err = ApiError(0, c.sh.calls)]
    ELSE [c EXCEPT !.log = IF c.onLog
                           THEN Append(@, CwAttempt(c.sh.retries))
                           ELSE @,
                   !.sleeps = Append(@, c.sh.delay),
                   !.sh.st = "backoff"]

\* callWithRetry(fn, actionName, retries, delay, onLog) has called fn.
RetryInit ==
    /\ \E n \in 0..MaxRetries, d \in InitialDelays, l \in BOOLEAN :
          call = [fn |-> "callWithRetry", maxRetries |-> n,
                  initialDelay |-> d, onLog |-> l,
                  sh |-> [FirstCall EXCEPT !.retries = n, !.delay = d],
                  log |-> <<>>, sleeps |-> <<>>]
    /\ pc = "retry"
    /\ failed = <<>>
    /\ events = <<>>
    /\ cfg = IdleConfig
    /\ cur = 0
    /\ logs = <<>>
    /\ externalContext = ""
    /\ batchCounts = <<>>
    /\ remaining = 0
    /\ currentProgress = 40
    /\ questions = <<>>
    /\ shards = <<>>
    /\ result = Pending
    /\ qi = 0
    /\ uniqueQuestions = <<>>
    /\ acceptedFingerprints = <<>>
    /\ rawQuestions = <<>>
    /\ mapped = <<>>

\* fn resolves (line 16): callWithRetry resolves with its value, here the
\* number of the invocation that gave it.
FnResolves ==
    /\ call.fn = "callWithRetry"
    /\ call.sh.st = "calling"
    /\ call' = [call EXCEPT !.sh.st = "resolved",
                            !.sh.value = << call.sh.calls >>]
    /\ UNCHANGED <<cfg, pc, cur, logs, externalContext, batchCounts, remaining,
                   currentProgress, questions, shards, result, qi,
                   uniqueQuestions, acceptedFingerprints, rawQuestions, mapped,
                   failed, events>>

\* fn rejects: lines 17-28.
FnRejects ==
    /\ call.fn = "callWithRetry"
    /\ call.sh.st = "calling"
    /\ call' = RetryCatch(call)
    /\ UNCHANGED <<cfg, pc, cur, logs, externalContext, batchCounts, remaining,
                   currentProgress, questions, shards, result, qi,
                   uniqueQuestions, acceptedFingerprints, rawQuestions, mapped,
                   failed, events>>

\* The timer of line 28 fires: line 29.
RetryTimerFires ==
    /\ call.fn = "callWithRetry"
    /\ call.sh.st = "backoff"
    /\ call' = [call EXCEPT !.sh = CwRetry(@)]
    /\ UNCHANGED <<cfg, pc, cur, logs, externalContext, batchCounts, remaining,
                   currentProgress, questions, shards, result, qi,
                   uniqueQuestions, acceptedFingerprints, rawQuestions, mapped,
                   failed, events>>

RetryNext == FnResolves \/ FnRejects \/ RetryTimerFires

SpecRetry == RetryInit /\ [][RetryNext]_vars

----------------------------------------------------------------------------
(* The search providers searchBaidu, searchGoogleSerper and searchTavily:  *)
(* specification SpecSearch                                                *)

MaxItems == 6

\* slice(0, 5)
SliceEnd == 5

SearchProviders == {"searchBaidu", "searchGoogleSerper", "searchTavily"}

\* An element of the list of a response body: an object with the k-th
\* title and the snippet sn (t = "object"), null (t = "null"), or a number,
\* every property of which reads undefined (t = "number").
Item(t, k, sn) ==
    IF t = "object"
    THEN [t |-> t, title |-> k, link |-> "link", url |-> "url", snippet |-> sn,
          description |-> "description", content |-> "content"]
    ELSE [t |-> t, title |-> 0, link |-> "undefined", url |-> "undefined",
          snippet |-> "undefined", description |-> "undefined",
          content |-> "undefined"]

\* The lists a body may carry: 0..MaxItems objects (every second one without
\* a snippet), the same with null as last element, and two numbers.
ItemLists ==
    LET Objects(n) ==
            [k \in 1..n |->
                Item("object", k, IF k % 2 = 1 THEN "snippet" ELSE "undefined")]
    IN  { Objects(n) : n \in 0..MaxItems }
            \cup { [Objects(n) EXCEPT ![n] = Item("null", 0, "undefined")] :
                      n \in 1..MaxItems }
            \cup { << Item("number", 0, "undefined"),
                      Item("number", 0, "undefined") >> }

\* What response.json() may resolve with: null, or an object whose organic
\* and results are left out, a list, the string "a", or the empty string.
SearchBodies ==
    LET FieldValues ==
            { JLit("undefined"), JStr(<<97>>), JStr(<<>>) }
                \cup { JArr(l) : l \in ItemLists }
    IN  { [t |-> "null", organic |-> JLit("undefined"),
           results |-> JLit("undefined")] }
            \cup { [t |-> "object", organic |-> a, results |-> b] :
                      a \in FieldValues, b \in FieldValues }

\* a || b on the values above
JsOr(a, b) ==
    IF a.t = "array" \/ (a.t = "string" /\ Len(a.v) > 0) THEN a ELSE b

\* data.organic || data.results || []  (line 898), data.organic || []
\* (line 940), data.results || []  (line 986)
PickList(fn, data) ==
    IF fn = "searchBaidu"
    THEN JsOr(data.organic, JsOr(data.results, JArr(<<>>)))
    ELSE IF fn = "searchGoogleSerper"
    THEN JsOr(data.organic, JArr(<<>>))
    ELSE JsOr(data.results, JArr(<<>>))

\* The map callbacks of lines 900-904, 940-944 and 988-992
MapItem(fn, item) ==
    [title |-> item.title,
     link |-> IF fn = "searchTavily" THEN item.url ELSE item.link,
     snippet |-> IF fn = "searchTavily" THEN item.content
                 ELSE IF fn = "searchGoogleSerper" THEN item.snippet
                 ELSE IF item.snippet \notin {"undefined", ""} THEN item.snippet
                 ELSE IF item.description \notin {"undefined", ""}
                 THEN item.description
                 ELSE ""]

\* Lines 897-904, 938-944 and 985-992 on the parsed body: the list of
\* results (ok), or a TypeError (reading a property of null, or calling
\* slice or map on a value that has none).
ProviderResults(fn, data) ==
    LET Thrown == [ok |-> FALSE, val |-> <<>>]
        MapAll(l) ==
            IF \E k \in 1..Len(l) : l[k].t = "null"
            THEN Thrown
            ELSE [ok |-> TRUE, val |-> [k \in 1..Len(l) |-> MapItem(fn, l[k])]]
        Sliced(l) ==
            IF l.t # "array" THEN Thrown
            ELSE IF fn = "searchTavily" THEN MapAll(l.v)
            ELSE MapAll(SubSeq(l.v, 1, Min(SliceEnd, Len(l.v))))
    IN  IF data.t = "null" THEN Thrown ELSE Sliced(PickList(fn, data))

\* The try without its catch: what is thrown rejects the promise of the
\* provider.
SearchCatchRethrown(c, outcome) ==
    IF outcome.ok
    THEN [c EXCEPT !.st = "returned", !.out = outcome.val]
    ELSE [c EXCEPT !.st = "rejected"]

\* The try of lines 878-910 (922-950, 963-997) from a point where it has
\* either its results or an exception: the catch returns [].
SearchCatch(c, outcome) ==
    IF outcome.ok
    THEN [c EXCEPT !.st = "returned", !.out = outcome.val]
    ELSE [c EXCEPT !.st = "returned", !.out = <<>>]

\* A provider is called; the stored key is missing ("") or there.
SearchInit ==
    /\ \E fn \in SearchProviders, key \in {"", "key"} :
          call = [fn |-> fn, key |-> key, st |-> "called", requests |-> 0,
                  response |-> "none",
                  body |-> [t |-> "none", organic |-> JLit("undefined"),
                            results |-> JLit("undefined")],
                  out |-> <<>>]
    /\ pc = "provider"
    /\ failed = <<>>
    /\ events = <<>>
    /\ cfg = IdleConfig
    /\ cur = 0
    /\ logs = <<>>
    /\ externalContext = ""
    /\ batchCounts = <<>>
    /\ remaining = 0
    /\ currentProgress = 20
    /\ questions = <<>>
    /\ shards = <<>>
    /\ result = Pending
    /\ qi = 0
    /\ uniqueQuestions = <<>>
    /\ acceptedFingerprints = <<>>
    /\ rawQuestions = <<>>
    /\ mapped = <<>>

\* Lines 872-879: without a key [] is returned, with one fetch is called.
ProviderStart ==
    /\ call.st = "called"
    /\ call' = IF call.key = ""
               THEN [call EXCEPT !.st = "returned", !.out = <<>>]
               ELSE [call EXCEPT !.st = "fetching", !.requests = @ + 1]
    /\ UNCHANGED <<cfg, pc, cur, logs, externalContext, batchCounts, remaining,
                   currentProgress, questions, shards, result, qi,
                   uniqueQuestions, acceptedFingerprints, rawQuestions, mapped,
                   failed, events>>

\* fetch rejects (no network, refused request).
FetchRejects ==
    /\ call.st = "fetching"
    /\ call' = SearchCatch([call EXCEPT !.response = "network-error"],
                           [ok |-> FALSE, val |-> <<>>])
    /\ UNCHANGED <<cfg, pc, cur, logs, externalContext, batchCounts, remaining,
                   currentProgress, questions, shards, result, qi,
                   uniqueQuestions, acceptedFingerprints, rawQuestions, mapped,
                   failed, events>>

\* fetch resolves with a response that is not ok (lines 892-895).
FetchNotOk ==
    /\ call.st = "fetching"
    /\ call' = [call EXCEPT !.response = "not-ok", !.st = "returned",
                            !.out = <<>>]
    /\ UNCHANGED <<cfg, pc, cur, logs, externalContext, batchCounts, remaining,
                   currentProgress, questions, shards, result, qi,
                   uniqueQuestions, acceptedFingerprints, rawQuestions, mapped,
                   failed, events>>

\* fetch resolves with an ok response: response.json() is awaited.
FetchOk ==
    /\ call.st = "fetching"
    /\ call' = [call EXCEPT !.response = "ok", !.st = "reading"]
    /\ UNCHANGED <<cfg, pc, cur, logs, externalContext, batchCounts, remaining,
                   currentProgress, questions, shards, result, qi,
                   uniqueQuestions, acceptedFingerprints, rawQuestions, mapped,
                   failed, events>>

\* response.json() rejects: the body is not JSON.
BodyUnparsable ==
    /\ call.st = "reading"
    /\ call' = SearchCatch([call EXCEPT !.response = "unparsable"],
                           [ok |-> FALSE, val |-> <<>>])
    /\ UNCHANGED <<cfg, pc, cur, logs, externalContext, batchCounts, remaining,
                   currentProgress, questions, shards, result, qi,
                   uniqueQuestions, acceptedFingerprints, rawQuestions, mapped,
                   failed, events>>

\* response.json() resolves with data: the rest of the try.
BodyParsed ==
    /\ call.st = "reading"
    /\ \E data \in SearchBodies :
          call' = SearchCatch([call EXCEPT !.response = "parsed",
                                          !.body = data],
                             ProviderResults(call.fn, data))
    /\ UNCHANGED <<cfg, pc, cur, logs, externalContext, batchCounts, remaining,
                   currentProgress, questions, shards, result, qi,
                   uniqueQuestions, acceptedFingerprints, rawQuestions, mapped,
                   failed, events>>

SearchNext ==
    \/ ProviderStart
    \/ FetchRejects
    \/ FetchNotOk
    \/ FetchOk
    \/ BodyUnparsable
    \/ BodyParsed

SpecSearch == SearchInit /\ [][SearchNext]_vars

----------------------------------------------------------------------------
(* cleanQuestionPrefix on its own, applied and applied again:              *)
(* specification SpecClean                                                 *)

MaxTextLen == 4

\* The units the texts are made of:  1 . space Q : a （ ） ①
CleanChars == {49, 46, 32, 81, 58, 97, 65288, 65289, 9312}

\* "1. What is X?"
TextWhatIsX == <<49, 46, 32, 87, 104, 97, 116, 32, 105, 115, 32, 88, 63>>
\* "Q3: test"
TextQ3Test == <<81, 51, 58, 32, 116, 101, 115, 116>>
\* "（2）示例"
TextFullWidthTwo == <<65288, 50, 65289, 31034, 20363>>
\* "1. 2. text"
TextStacked == <<49, 46, 32, 50, 46, 32, 116, 101, 120, 116>>

\* "(1)X", "1)X", "1.X", "【1】X", "[1]X", "1. 题目：X"
TextParenOneX == <<40, 49, 41, 88>>
TextOneParenX == <<49, 41, 88>>
TextOneDotX == <<49, 46, 88>>
TextLenticularOneX == <<12304, 49, 12305, 88>>
TextSquareOneX == <<91, 49, 93, 88>>
TextOneLabelX == <<49, 46, 32, 39064, 30446, 65306, 88>>

CleanTexts ==
    SeqsUpTo(CleanChars, MaxTextLen)
        \cup {TextWhatIsX, TextQ3Test, TextFullWidthTwo, TextStacked,
              TextParenOneX, TextOneParenX, TextOneDotX, TextLenticularOneX,
              TextSquareOneX, TextOneLabelX}

\* cleanQuestionPrefix is about to be called on a question text.
CleanInit ==
    /\ \E text \in CleanTexts :
          call = [fn |-> "cleanQuestionPrefix", text |-> text, out |-> <<>>]
    /\ pc = "clean"
    /\ failed = <<>>
    /\ events = <<>>
    /\ cfg = IdleConfig
    /\ cur = 0
    /\ logs = <<>>
    /\ externalContext = ""
    /\ batchCounts = <<>>
    /\ remaining = 0
    /\ currentProgress = 90
    /\ questions = <<>>
    /\ shards = <<>>
    /\ result = Pending
    /\ qi = 0
    /\ uniqueQuestions = <<>>
    /\ acceptedFingerprints = <<>>
    /\ rawQuestions = <<>>
    /\ mapped = <<>>

\* The function is called (line 449) on the text.
CleanOnce ==
    /\ pc = "clean"
    /\ call.out = <<>>
    /\ call' = [call EXCEPT !.out = << cleanQuestionPrefix(call.text) >>]
    /\ UNCHANGED <<cfg, pc, cur, logs, externalContext, batchCounts, remaining,
                   currentProgress, questions, shards, result, qi,
                   uniqueQuestions, acceptedFingerprints, rawQuestions, mapped,
                   failed, events>>

\* The function is called on what it returned.
CleanAgain ==
    /\ pc = "clean"
    /\ Len(call.out) = 1
    /\ call' = [call EXCEPT !.out = Append(@, cleanQuestionPrefix(@[1]))]
    /\ UNCHANGED <<cfg, pc, cur, logs, externalContext, batchCounts, remaining,
                   currentProgress, questions, shards, result, qi,
                   uniqueQuestions, acceptedFingerprints, rawQuestions, mapped,
                   failed, events>>

\* The caller goes on with the text it has.
CleanReturn ==
    /\ pc = "clean"
    /\ call.out # <<>>
    /\ pc' = "cleaned"
    /\ UNCHANGED <<cfg, cur, logs, externalContext, batchCounts, remaining,
                   currentProgress, questions, shards, result, qi,
                   uniqueQuestions, acceptedFingerprints, rawQuestions, mapped,
                   call, failed, events>>

CleanNext == CleanOnce \/ CleanAgain \/ CleanReturn

SpecClean == CleanInit /\ [][CleanNext]_vars

----------------------------------------------------------------------------
(* fetchExternalContext on its own (lines 31-162): specification           *)
(* SpecEnrich                                                              *)
(*                                                                         *)
(* The keyword text is a sequence of code units. The search context and    *)
(* the returned string are sequences of non-empty fragments, so that the   *)
(* empty sequence is the empty string and nothing else is.                 *)

MaxChunks == 2
MaxResults == 2

EnrichEngines == {"google_native", "baidu_search1", "tavily", "google_serper"}

\* "NONE", "None", "none" (line 101)
NoneSpellings ==
    { <<78, 79, 78, 69>>, <<78, 111, 110, 101>>, <<110, 111, 110, 101>> }

\* The word none in every casing.
NoneCasings ==
    { <<a, b, c, d>> : a \in {78, 110}, b \in {79, 111},
                       c \in {78, 110}, d \in {69, 101} }

\* "关键词", "Keywords"
KeywordsLabelZh == <<20851, 38190, 35789>>
KeywordsLabelEn == <<75, 101, 121, 119, 111, 114, 100, 115>>

\* "完整", "提供", "没有缺失", "无需" (line 102)
CompletenessMarkers ==
    { <<23436, 25972>>, <<25552, 20379>>, <<27809, 26377, 32570, 22833>>,
      <<26080, 38656>> }

\* n times the letter a
Filler(n) == [k \in 1..n |-> 97]

\* The texts the keyword call answers with: none in every casing, alone,
\* between spaces and after a label; nothing; a label alone; keywords;
\* prose of 41 and of 40 characters with a completeness marker, and of 41
\* characters without one; "NONE.".
KeywordTexts ==
    NoneCasings
        \cup { <<>>, <<32, 10>>,
               <<32, 78, 79, 78, 69, 10>>,
               KeywordsLabelEn \o <<58, 32, 78, 79, 78, 69>>,
               <<107, 101, 121, 119, 111, 114, 100, 115, 58, 78, 111, 78, 101>>,
               KeywordsLabelZh \o <<65306, 110, 111, 110, 101>>,
               KeywordsLabelZh \o <<65306>>,
               <<97, 98, 32, 99>>,
               KeywordsLabelEn \o <<58, 32, 97, 98>>,
               Filler(39) \o <<23436, 25972>>,
               Filler(38) \o <<23436, 25972>>,
               Filler(41),
               <<78, 79, 78, 69, 46>> }

\* keywordResp.text: undefined, or a string.
KeywordResponses ==
    { JLit("undefined") } \cup { JStr(t) : t \in KeywordTexts }

\* keywords.replace(/^(关键词|Keywords)[:：]/i, '')  (line 98)
StripKeywordsLabel(s) ==
    LET After(lit) ==
            IF StartsWithCI(s, 1, lit)
               /\ Len(s) > Len(lit)
               /\ s[Len(lit) + 1] \in {58, 65306}
            THEN Len(lit) + 1
            ELSE 0
    IN  IF After(KeywordsLabelZh) > 0 THEN Drop(s, After(KeywordsLabelZh))
        ELSE IF After(KeywordsLabelEn) > 0 THEN Drop(s, After(KeywordsLabelEn))
        ELSE s

\* Lines 95-98: keywordResp.text?.trim() || "", the label taken off, trim.
KeywordsOf(resp) ==
    Trim(StripKeywordsLabel(IF resp.t = "string" THEN Trim(resp.v) ELSE <<>>))

\* isNone compared without regard to case.
isNoneAnyCase(keywords) ==
    Len(keywords) = 4 /\ StartsWithCI(keywords, 1, <<110, 111, 110, 101>>)

\* const isNone (line 101)
isNone(keywords) == keywords \in NoneSpellings

\* const isChattyCompleteness (line 102)
isChattyCompleteness(keywords) ==
    /\ Len(keywords) > 40
    /\ \E m \in CompletenessMarkers : Includes(keywords, m)

\* The condition of line 104
NothingToDo(keywords) ==
    keywords = <<>> \/ isNone(keywords) \/ isChattyCompleteness(keywords)

\* A string as a sequence of fragments: nothing for the empty string.
Frag(x) == IF x = "" THEN <<>> ELSE <<x>>

\* a.join(sep) on a list of fragment sequences
RECURSIVE JoinWith(_, _)
JoinWith(a, sep) ==
    IF a = <<>> THEN <<>>
    ELSE IF Len(a) = 1 THEN a[1]
    ELSE a[1] \o <<sep>> \o JoinWith(Tail(a), sep)

\* searchResp.text: undefined, "" or a text.
GroundedTexts == { JLit("undefined"), JStr(""), JStr("synthesis") }

\* c.web?.title of a grounding chunk: undefined, "" or a title.
ChunkTitles == { "undefined", "", "title" }

\* groundingChunks: undefined (or no candidate), an object that is no
\* array, or an array of 0..MaxChunks chunks.
GroundingChunks ==
    { JLit("undefined"), JLit("object") }
        \cup { JArr(l) : l \in SeqsUpTo(ChunkTitles, MaxChunks) }

\* The fixed texts of the search context and of the banner, by name:
\* "\n[来源]: ", "[参考源 ", "] 标题: ", "\n摘要内容: ", and the first and
\* the last line of the template literal of lines 151-155.
SourcesLabel == "sources-label"
ReferenceOpen == "reference-open"
ReferenceTitle == "reference-title"
ReferenceSnippet == "reference-snippet"
BannerHead == "banner-head"
BannerTail == "banner-tail"

\* Lines 125-131: searchResp.text || "", then, if chunks is truthy, the
\* trailer with the titles that are truthy; map on a value that has none
\* throws.
GroundedContext(text, chunks) ==
    LET Kept(t) == t \notin {"undefined", ""}
        Titles(l) == SelectSeq(l, Kept)
        Text == IF text.t = "string" THEN Frag(text.v) ELSE <<>>
    IN  IF chunks.t = "undefined" THEN [ok |-> TRUE, val |-> Text]
        ELSE IF chunks.t # "array" THEN [ok |-> FALSE, val |-> <<>>]
        ELSE [ok |-> TRUE,
              val |-> Text \o <<SourcesLabel>>
                        \o JoinWith([k \in 1..Len(Titles(chunks.v)) |->
                                        <<Titles(chunks.v)[k]>>], ", ")]

\* What a search provider resolves with: 0..MaxResults results, the even
\* ones with an empty snippet.
ProviderLists ==
    { [k \in 1..n |->
          [title |-> "title", link |-> "link",
           snippet |-> IF k % 2 = 1 THEN "snippet" ELSE ""]] :
      n \in 0..MaxResults }

\* i + 1 in a template literal
Decimal(n) == <<"0", "1", "2", "3", "4", "5", "6", "7", "8", "9">>[n + 1]

\* Lines 144-146 on the results of a provider.
ProviderContext(results) ==
    IF Len(results) > 0
    THEN JoinWith([i \in 1..Len(results) |->
                      <<ReferenceOpen, Decimal(i), ReferenceTitle>>
                          \o Frag(results[i].title)
                          \o <<ReferenceSnippet>>
                          \o Frag(results[i].snippet)], "\n")
    ELSE <<>>

\* The template literal of lines 151-155.
Banner(searchContext) ==
    <<BannerHead>> \o searchContext \o <<BannerTail>>

\* Lines 149-161 once the search step has left searchContext.
EnrichReturn(c, searchContext, l) ==
    IF searchContext # <<>>
    THEN [call |-> [c EXCEPT !.st = "returned", !.context = searchContext,
                             !.out = Banner(searchContext)],
          logs |-> Append(l, LogLine("search-done", 0, 25))]
    ELSE [call |-> [c EXCEPT !.st = "returned", !.out = <<>>], logs |-> l]

\* The catch of lines 157-160, then line 161.
EnrichCatch(c, l) ==
    [call |-> [c EXCEPT !.st = "returned", !.out = <<>>],
     logs |-> Append(l, LogLine("search-failed", 0, 25))]

\* fetchExternalContext is about to be called.
EnrichInit ==
    /\ \E e \in EnrichEngines, n \in {0, 1} :
          call = [fn |-> "fetchExternalContext", activeEngine |-> e,
                  materials |-> n, st |-> "called",
                  resp |-> JLit("none"), keywords |-> <<>>,
                  text |-> JLit("none"), chunks |-> JLit("none"),
                  results |-> <<>>, context |-> <<>>, out |-> <<>>,
                  keywordCalls |-> 0, groundedCalls |-> 0,
                  providerCalls |-> 0]
    /\ pc = "enrich"
    /\ failed = <<>>
    /\ events = <<>>
    /\ cfg = IdleConfig
    /\ cur = 0
    /\ logs = <<>>
    /\ externalContext = ""
    /\ batchCounts = <<>>
    /\ remaining = 0
    /\ currentProgress = 5
    /\ questions = <<>>
    /\ shards = <<>>
    /\ result = Pending
    /\ qi = 0
    /\ uniqueQuestions = <<>>
    /\ acceptedFingerprints = <<>>
    /\ rawQuestions = <<>>
    /\ mapped = <<>>

\* Lines 40-72: the early return, or the keyword call.
EnrichStart ==
    /\ call.st = "called"
    /\ IF call.materials = 0
       THEN /\ call' = [call EXCEPT !.st = "returned", !.out = <<>>]
            /\ logs' = logs
       ELSE /\ call' = [call EXCEPT !.st = "kw_call", !.keywordCalls = @ + 1]
            /\ logs' = logs \o << LogLine("search-engine", 0, 12),
                                  LogLine("scan-keywords", 0, 15) >>
    /\ UNCHANGED <<cfg, pc, cur, externalContext, batchCounts, remaining,
                   currentProgress, questions, shards, result, qi,
                   uniqueQuestions, acceptedFingerprints, rawQuestions, mapped,
                   failed, events>>

\* The keyword call rejects.
KeywordRejects ==
    /\ call.st = "kw_call"
    /\ LET Go(r) == call' = r.call /\ logs' = r.logs
       IN  Go(EnrichCatch(call, logs))
    /\ UNCHANGED <<cfg, pc, cur, externalContext, batchCounts, remaining,
                   currentProgress, questions, shards, result, qi,
                   uniqueQuestions, acceptedFingerprints, rawQuestions, mapped,
                   failed, events>>

\* Lines 95-141 on the response of the keyword call: the return of line
\* 106, or the call of the search step.
AfterKeywords(c, l, resp) ==
    LET Search(c1) ==
            IF c1.activeEngine = "google_native"
            THEN [c1 EXCEPT !.st = "grounded_call", !.groundedCalls = @ + 1]
            ELSE [c1 EXCEPT !.st = "provider_call", !.providerCalls = @ + 1]
        Classify(c1) ==
            IF NothingToDo(c1.keywords)
            THEN [call |-> [c1 EXCEPT !.st = "returned", !.out = <<>>],
                  logs |-> Append(l, LogLine("skip-search", 0, 20))]
            ELSE [call |-> Search(c1),
                  logs |-> l \o << LogLine("keywords", 0, 18),
                                   LogLine("searching", 0, 20) >>]
    IN  Classify([c EXCEPT !.resp = resp, !.keywords = KeywordsOf(resp)])

\* The keyword call resolves.
KeywordResolves ==
    /\ call.st = "kw_call"
    /\ \E resp \in KeywordResponses :
          LET Go(r) == call' = r.call /\ logs' = r.logs
          IN  Go(AfterKeywords(call, logs, resp))
    /\ UNCHANGED <<cfg, pc, cur, externalContext, batchCounts, remaining,
                   currentProgress, questions, shards, result, qi,
                   uniqueQuestions, acceptedFingerprints, rawQuestions, mapped,
                   failed, events>>

\* The grounded search call rejects.
GroundedRejects ==
    /\ call.st = "grounded_call"
    /\ LET Go(r) == call' = r.call /\ logs' = r.logs
       IN  Go(EnrichCatch(call, logs))
    /\ UNCHANGED <<cfg, pc, cur, externalContext, batchCounts, remaining,
                   currentProgress, questions, shards, result, qi,
                   uniqueQuestions, acceptedFingerprints, rawQuestions, mapped,
                   failed, events>>

\* The grounded search call resolves: lines 125-131, then 149-161.
GroundedResolves ==
    /\ call.st = "grounded_call"
    /\ \E text \in GroundedTexts, chunks \in GroundingChunks :
          LET Go(r) == call' = r.call /\ logs' = r.logs
              Got(c, g) ==
                  Go(IF g.ok THEN EnrichReturn(c, g.val, logs)
                     ELSE EnrichCatch(c, logs))
          IN  Got([call EXCEPT !.text = text, !.chunks = chunks],
                  GroundedContext(text, chunks))
    /\ UNCHANGED <<cfg, pc, cur, externalContext, batchCounts, remaining,
                   currentProgress, questions, shards, result, qi,
                   uniqueQuestions, acceptedFingerprints, rawQuestions, mapped,
                   failed, events>>

\* The search provider resolves with its results (it never rejects):
\* lines 144-146, then 149-161.
ProviderResolves ==
    /\ call.st = "provider_call"
    /\ \E results \in ProviderLists :
          LET Go(r) == call' = r.call /\ logs' = r.logs
          IN  Go(EnrichReturn([call EXCEPT !.results = results],
                              ProviderContext(results), logs))
    /\ UNCHANGED <<cfg, pc, cur, externalContext, batchCounts, remaining,
                   currentProgress, questions, shards, result, qi,
                   uniqueQuestions, acceptedFingerprints, rawQuestions, mapped,
                   failed, events>>

EnrichNext ==
    \/ EnrichStart
    \/ KeywordRejects
    \/ KeywordResolves
    \/ GroundedRejects
    \/ GroundedResolves
    \/ ProviderResolves

SpecEnrich == EnrichInit /\ [][EnrichNext]_vars

----------------------------------------------------------------------------
(* Properties of the run (specification Spec)                              *)

SomeShardRejected == \E i \in DOMAIN shards : shards[i].st = "rejected"

\* C1: in PARALLEL mode, from the moment the promise of a shard has rejected
\* (retries exhausted, no text, or text that does not parse), the run is
\* either still launching the later shards, or it has rejected with the
\* error of a rejected shard and has given no question list, whatever the
\* other shards resolved with.
ParallelFailureRejectsRun ==
    (cfg.shardingMode = "PARALLEL" /\ SomeShardRejected) =>
        \/ pc = "launch_sleep" /\ result = Pending
        \/ /\ pc = "done"
           /\ result.state = "rejected"
           /\ result.value = <<>>
           /\ \E i \in DOMAIN shards :
                 shards[i].st = "rejected" /\ result.error = shards[i].err

\* A PARALLEL run has rejected although a shard resolved with questions.
ParallelPartialSuccessDiscarded ==
    /\ cfg.shardingMode = "PARALLEL"
    /\ pc = "done"
    /\ result.state = "rejected"
    /\ \E i, j \in DOMAIN shards :
          /\ shards[i].st = "rejected"
          /\ shards[j].st = "resolved"
          /\ shards[j].value # <<>>

\* C2: in SERIAL mode at most one shard has a generation under way (a
\* backend call pending or a retry sleeping), and a shard has been started
\* only when every shard before it has resolved and its questions have been
\* appended to the list, in index order.
SerialOneShardAtATime ==
    cfg.shardingMode = "SERIAL" =>
        /\ Cardinality({ i \in DOMAIN shards :
                           shards[i].st \in {"calling", "backoff"} }) <= 1
        /\ \A i \in DOMAIN shards :
              shards[i].st # "idle" =>
                 \A j \in DOMAIN shards :
                    j < i =>
                       /\ shards[j].st = "resolved"
                       /\ Len(questions) >= Len(FlatFrom(shards, 0, j + 1))
                       /\ pc # "done" =>
                             SubSeq(questions, 1,
                                    Len(FlatFrom(shards, 0, j + 1)))
                                = FlatFrom(shards, 0, j + 1)

\* The second shard of a SERIAL run is being generated after the first gave
\* its questions.
SerialSecondShardStarted ==
    /\ cfg.shardingMode = "SERIAL"
    /\ 1 \in DOMAIN shards
    /\ shards[1].st = "calling"
    /\ shards[0].st = "resolved"
    /\ questions # <<>>
    /\ questions = shards[0].value

\* C3: in SERIAL mode, when shard i has rejected, every later shard is still
\* as it was planned (no backend call was made for it), and the run has
\* rejected with the error of shard i and without any question.
SerialFailureAbortsRun ==
    cfg.shardingMode = "SERIAL" =>
        \A i \in DOMAIN shards :
           shards[i].st = "rejected" =>
              /\ \A j \in DOMAIN shards : j > i => shards[j] = IdleShard
              /\ pc = "done"
              /\ result = Rejected(shards[i].err)

\* The first shard of a SERIAL plan of two has failed all its calls.
SerialFirstShardExhausted ==
    /\ cfg.shardingMode = "SERIAL"
    /\ 1 \in DOMAIN shards
    /\ shards[0].st = "rejected"
    /\ shards[0].err.kind = "api"
    /\ shards[1].calls = 0
    /\ result.state = "rejected"

\* C4: the progress values handed to onLog in the course of one run never
\* decrease, and each lies in 0..100.
ProgressNeverDecreases ==
    /\ \A k \in 1..Len(logs) : logs[k].prog \in 0..100
    /\ \A k \in 1..(Len(logs) - 1) : logs[k].prog <= logs[k + 1].prog

\* C5: a shard whose backend call fails every time has its call invoked 4
\* times and no more, and its promise then rejects with the error of the
\* fourth invocation itself; while it runs, the invocations made and the
\* retries left add up to 4.
RetryExhaustionAfterFourCalls ==
    \A i \in DOMAIN shards :
       /\ shards[i].calls <= 4
       /\ shards[i].st \in {"calling", "backoff"} =>
             shards[i].calls + shards[i].retries = 4
       /\ (shards[i].st = "rejected" /\ shards[i].err.kind = "api") =>
             /\ shards[i].calls = 4
             /\ shards[i].err = [kind |-> "api", batch |-> i, call |-> 4]

\* A shard has rejected with the error of its fourth backend call.
FourthCallErrorSurfaced ==
    \E i \in DOMAIN shards :
       /\ shards[i].st = "rejected"
       /\ shards[i].err.kind = "api"
       /\ shards[i].calls = 4

----------------------------------------------------------------------------
(* Properties of the shard plan (specification SpecPlan)                   *)

RECURSIVE SumSeq(_)
SumSeq(s) == IF s = <<>> THEN 0 ELSE s[1] + SumSeq(Drop(s, 1))

\* C6: for a count and a shard size of at least 1, the plan the loop ends
\* with sums to the count, has ceil(count / shardSize) elements, each of
\* them in 1..shardSize; for 25 and 10 it is 10, 10, 5.
PlanSharesCountExactly ==
    (pc = "planned" /\ cfg.count >= 1 /\ cfg.userBatchSize >= 1) =>
        /\ SumSeq(batchCounts) = cfg.count
        /\ Len(batchCounts)
              = (cfg.count + cfg.userBatchSize - 1) \div cfg.userBatchSize
        /\ \A k \in 1..Len(batchCounts) :
              batchCounts[k] \in 1..cfg.userBatchSize
        /\ (cfg.count = 25 /\ cfg.userBatchSize = 10) =>
              batchCounts = <<10, 10, 5>>

\* C39: for every requested count and every stored shard size, zero and
\* negative sizes included, the planning loop ends: every iteration brings
\* remaining closer to 0 and the statement after the loop is reached; for a
\* count of 0 the plan is empty.
PlanningTerminates ==
    /\ <>(pc = "planned")
    /\ [][remaining' # remaining \/ batchCounts' # batchCounts =>
             remaining' < remaining]_vars
    /\ [](pc = "planned" /\ cfg.count = 0 => batchCounts = <<>>)

\* The plan for 25 questions in shards of 10 is complete.
PlanOfTwentyFiveByTen ==
    /\ pc = "planned"
    /\ cfg.count = 25
    /\ cfg.userBatchSize = 10
    /\ Len(batchCounts) = 3

----------------------------------------------------------------------------
(* Properties of the deduplication scan (specification SpecDedup)          *)

\* The three-tier rule, written with the numbers of the documentation.
ThreeTierDuplicates(fa, fb) ==
    \/ fa = fb
    \/ /\ Len(fa) > 10
       /\ Len(fb) > 10
       /\ \/ Includes(fa, fb)
          \/ Includes(fb, fa)
          \/ SubSeq(fa, 1, Min(15, Len(fa))) = SubSeq(fb, 1, Min(15, Len(fb)))

\* C7: when the run resolves, no two questions of the list it resolves with
\* have equal fingerprints, and none two with fingerprints of more than 10
\* characters have one fingerprint inside the other or the same first 15
\* characters.
ReturnedQuestionsPairwiseDistinct ==
    (pc = "done" /\ result.state = "resolved") =>
        \A a, b \in 1..Len(result.value) :
           a # b =>
              ~ThreeTierDuplicates(Fingerprint(result.value[a].questionText),
                                   Fingerprint(result.value[b].questionText))

\* A scan of three questions has dropped one and returned two whose
\* fingerprints are both longer than 10 characters.
LongDuplicateDropped ==
    /\ pc = "done"
    /\ result.state = "resolved"
    /\ Len(questions) = 3
    /\ Len(result.value) = 2
    /\ \A a \in 1..2 : Len(Fingerprint(result.value[a].questionText)) > 10

\* The scan has run on the three questions of the documented example.
ExampleScanned ==
    /\ pc = "done"
    /\ Len(questions) = 3
    /\ questions[1].questionText = TextPhotosynthesis
    /\ questions[2].questionText = TextAskPhotosynthesis
    /\ questions[3].questionText = TextDifferent

FuzzyMatch(fa, fb) ==
    \/ Includes(fa, fb)
    \/ Includes(fb, fa)
    \/ SubSeq(fa, 1, Min(15, Len(fa))) = SubSeq(fb, 1, Min(15, Len(fb)))

\* The elements of a sequence.
Range(f) == { f[k] : k \in DOMAIN f }

\* C32: in every iteration of the scan on a question with a non-empty
\* fingerprint, the question is dropped exactly when an accepted fingerprint
\* is equal to its own, or when its fingerprint and an accepted one are both
\* longer than 10 characters and match by inclusion or by their first 15
\* characters: a fingerprint of 10 characters or fewer, on either side, is
\* compared for equality only.
FuzzyRulesNeedBothLong ==
    [][qi' = qi + 1 =>
         LET fp == Fingerprint(questions'[qi'].questionText)
             dropped == acceptedFingerprints' = acceptedFingerprints
         IN  Len(fp) > 0 =>
                /\ dropped <=>
                      \E f \in Range(acceptedFingerprints) :
                         \/ f = fp
                         \/ /\ Len(fp) > 10
                            /\ Len(f) > 10
                            /\ FuzzyMatch(fp, f)
                /\ Len(fp) <= 10 => (dropped <=> fp \in Range(acceptedFingerprints))
                /\ dropped /\ fp \notin Range(acceptedFingerprints) =>
                      \E f \in Range(acceptedFingerprints) :
                         Len(f) > 10 /\ FuzzyMatch(fp, f)]_vars

\* A fingerprint of 10 characters was accepted after one of 11 characters
\* that contains it, and a third question was scanned.
ShortInsideLongAccepted ==
    /\ pc = "dedup"
    /\ qi = 3
    /\ Len(acceptedFingerprints) >= 2
    /\ Len(acceptedFingerprints[1]) = 11
    /\ Len(acceptedFingerprints[2]) = 10
    /\ Includes(acceptedFingerprints[1], acceptedFingerprints[2])

\* a is b with some of its elements left out, the others in their order.
RECURSIVE IsSubsequence(_, _)
IsSubsequence(a, b) ==
    IF a = <<>> THEN TRUE
    ELSE IF b = <<>> THEN FALSE
    ELSE IF Head(a) = Head(b) THEN IsSubsequence(Tail(a), Tail(b))
    ELSE IsSubsequence(a, Tail(b))

\* The place of the scanned question k in the accepted list, 0 if it is
\* not there.
AcceptedAt(k) ==
    IF \E j \in DOMAIN uniqueQuestions : uniqueQuestions[j] = questions[k]
    THEN CHOOSE j \in DOMAIN uniqueQuestions : uniqueQuestions[j] = questions[k]
    ELSE 0

\* C33: at every point of the scan the accepted list is a subsequence, in
\* order, of the questions scanned so far, with their fingerprints beside
\* them; no accepted question has an empty fingerprint; a scanned question
\* that is not accepted has an empty fingerprint or is a duplicate, by one
\* of the three rules, of a question accepted from an earlier position; the
\* first question with a non-empty fingerprint is accepted; and an iteration
\* only ever appends to the accepted list, leaving it unchanged on a
\* question with an empty fingerprint.
FirstWinsNothingDroppedWithoutCause ==
    /\ [](pc = "dedup" =>
             LET fp(k) == Fingerprint(questions[k].questionText)
             IN  /\ IsSubsequence(uniqueQuestions, SubSeq(questions, 1, qi))
                 /\ Len(acceptedFingerprints) = Len(uniqueQuestions)
                 /\ \A j \in DOMAIN uniqueQuestions :
                       /\ acceptedFingerprints[j]
                             = Fingerprint(uniqueQuestions[j].questionText)
                       /\ acceptedFingerprints[j] # <<>>
                 /\ \A k \in 1..qi :
                       /\ fp(k) = <<>> => AcceptedAt(k) = 0
                       /\ (fp(k) # <<>> /\ AcceptedAt(k) = 0) =>
                             \E e \in 1..(k - 1) :
                                /\ AcceptedAt(e) # 0
                                /\ ThreeTierDuplicates(fp(k), fp(e))
                       /\ (fp(k) # <<>> /\ \A e \in 1..(k - 1) : fp(e) = <<>>) =>
                             AcceptedAt(k) = 1)
    /\ [][qi' = qi + 1 =>
             /\ \/ uniqueQuestions' = uniqueQuestions
                \/ uniqueQuestions' = Append(uniqueQuestions, questions'[qi'])
             /\ Fingerprint(questions'[qi'].questionText) = <<>> =>
                   /\ uniqueQuestions' = uniqueQuestions
                   /\ acceptedFingerprints' = acceptedFingerprints]_vars

\* Three questions were scanned: the first has an empty fingerprint, the
\* second was accepted and the third was dropped as its duplicate.
EmptyDroppedThenDuplicateDropped ==
    /\ pc = "dedup"
    /\ qi = 3
    /\ Fingerprint(questions[1].questionText) = <<>>
    /\ Len(uniqueQuestions) = 1
    /\ uniqueQuestions[1] = questions[2]
    /\ questions[3].questionText # questions[2].questionText

\* The questions the scan starts from for the texts ts, as DedupInit builds
\* them.
QuestionsOf(ts) ==
    [k \in 1..Len(ts) |->
        MkQuestion(0, k - 1, MkRaw("SHORT_ANSWER", ts[k], JStr(<<65>>)))]

\* The texts of a list of questions.
TextsOf(qs) == [k \in 1..Len(qs) |-> qs[k].questionText]

\* C34: the set the scan accepts depends on the order of its input. With
\* A = "abcdefghijk", C = "lmnopqrstuv" and B = A followed by C, B contains
\* both A and C while A and C are no duplicates of each other: the scan of
\* A, C, B accepts A and C, and the scan of B, A, C accepts B alone.
AcceptedSetDependsOnOrder ==
    LET A == Letters11a
        C == Letters11b
        B == Letters11a \o Letters11b
        Accepted(ts) == TextsOf(DedupFrom(QuestionsOf(ts), 1, <<>>, <<>>).unique)
    IN  /\ ThreeTierDuplicates(B, A)
        /\ ThreeTierDuplicates(B, C)
        /\ ~ThreeTierDuplicates(A, C)
        /\ Accepted(<<A, C, B>>) = <<A, C>>
        /\ Accepted(<<B, A, C>>) = <<B>>
        /\ (pc = "done" /\ TextsOf(questions) = <<A, C, B>>) =>
              TextsOf(uniqueQuestions) = <<A, C>>
        /\ (pc = "done" /\ TextsOf(questions) = <<B, A, C>>) =>
              TextsOf(uniqueQuestions) = <<B>>

\* The scan of B, A, C has returned one question.
LongestFirstAcceptsOne ==
    /\ pc = "done"
    /\ TextsOf(questions) = <<Letters11a \o Letters11b, Letters11a, Letters11b>>
    /\ Len(result.value) = 1

----------------------------------------------------------------------------
(* Properties of fetchExternalContext (specification SpecEnrich)           *)

\* The keyword call has resolved and its response was classified.
KeywordsClassified ==
    call.fn = "fetchExternalContext" /\ call.resp.t # "none"

\* C35: once the keyword call has resolved with a text that, trimmed and
\* with its label taken off, is empty or is the word none in any casing,
\* fetchExternalContext has returned the empty string and has made no
\* grounded search call and no search provider call.
NoneInAnyCasingSkipsSearch ==
    (KeywordsClassified
        /\ (call.keywords = <<>> \/ isNoneAnyCase(call.keywords))) =>
       /\ call.st = "returned"
       /\ call.out = <<>>
       /\ call.groundedCalls = 0
       /\ call.providerCalls = 0

\* C36: fetchExternalContext returns the empty string or the banner around
\* a search context that is not empty, and it returns the empty string
\* whenever the provider gave no result or the grounded search gave no
\* synthesized text.
NothingFoundGivesEmptyContext ==
    (call.fn = "fetchExternalContext" /\ call.st = "returned") =>
       /\ \/ call.out = <<>>
          \/ call.out = Banner(call.context) /\ call.context # <<>>
       /\ (call.providerCalls = 1 /\ call.results = <<>>) => call.out = <<>>
       /\ (call.groundedCalls = 1
             /\ (call.text.t # "string" \/ call.text.v = "")) =>
             call.out = <<>>

----------------------------------------------------------------------------
(* Properties of the answer normalisation (specification SpecNorm)         *)

\* C9: a question made from a raw record whose correctAnswer is a string
\* has an array as its correctAnswer when its type is MULTI_CHOICE,
\* ORDERING, MATCHING or FILL_IN_BLANK, and a string for any other type.
AnswerShapeFollowsType ==
    \A k \in 1..Len(mapped) :
       rawQuestions[k].correctAnswer.t = "string" =>
          IF mapped[k].type
                \in {"MULTI_CHOICE", "ORDERING", "MATCHING", "FILL_IN_BLANK"}
          THEN mapped[k].correctAnswer.t = "array"
          ELSE mapped[k].correctAnswer.t = "string"

IsAnswerSeparator(c) == c \in {44, 65292, 12289}

IsAnswerText(c) == ~IsAnswerSeparator(c) /\ c \notin SpaceChars

RECURSIVE JoinPieces(_)
JoinPieces(ps) == IF ps = <<>> THEN <<>> ELSE ps[1].v \o JoinPieces(Drop(ps, 1))

\* a is the array of the pieces of u between the separators , ， 、 each
\* piece without white space at its ends.
IsTrimmedSplit(u, a) ==
    /\ a.t = "array"
    /\ Len(a.v) = 1 + Len(SelectSeq(u, IsAnswerSeparator))
    /\ \A k \in 1..Len(a.v) :
          /\ a.v[k].t = "string"
          /\ SelectSeq(a.v[k].v, IsAnswerSeparator) = <<>>
          /\ a.v[k].v # <<>> =>
                /\ a.v[k].v[1] \notin SpaceChars
                /\ a.v[k].v[Len(a.v[k].v)] \notin SpaceChars
    /\ SelectSeq(JoinPieces(a.v), IsAnswerText) = SelectSeq(u, IsAnswerText)

\* C10: the map gives one question for each raw record, in the order of the
\* records and with their type and text, and ends; where the correctAnswer
\* of a record of an array type is a string that looks like a list and that
\* JSON.parse refuses, the question has the comma-split fallback as answer.
NormalizerKeepsEveryRecord ==
    /\ Len(mapped) <= Len(rawQuestions)
    /\ pc = "normed" => Len(mapped) = Len(rawQuestions)
    /\ \A k \in 1..Len(mapped) :
          /\ mapped[k].index = k - 1
          /\ mapped[k].type = rawQuestions[k].type
          /\ mapped[k].questionText = rawQuestions[k].questionText
          /\ ( /\ rawQuestions[k].type
                     \in {"MULTI_CHOICE", "ORDERING", "MATCHING", "FILL_IN_BLANK"}
               /\ rawQuestions[k].correctAnswer.t = "string"
               /\ LooksLikeList(rawQuestions[k].correctAnswer.v)
               /\ ~JSONparse(rawQuestions[k].correctAnswer.v).ok )
             => IsTrimmedSplit(rawQuestions[k].correctAnswer.v,
                               mapped[k].correctAnswer)

\* Two records have been mapped, one of them by the fallback into the three
\* pieces A, B, C.
FallbackSplitInThree ==
    /\ pc = "normed"
    /\ Len(mapped) = 2
    /\ \E k \in 1..2 :
          /\ rawQuestions[k].correctAnswer.t = "string"
          /\ ~JSONparse(rawQuestions[k].correctAnswer.v).ok
          /\ mapped[k].correctAnswer
                = JArr(<< JStr(<<65>>), JStr(<<66>>), JStr(<<67>>) >>)

\* C11: for type MULTI_CHOICE the map of lines 284-313 turns the
\* correctAnswer '["A","B"]' into the array ["A","B"], the correctAnswer
\* 'A,B', which JSON.parse refuses, into ["A","B"] as well, and the bare
\* value 'A' into the one-element array ["A"].
MultiChoiceExamplesNormalized ==
    \A k \in 1..Len(mapped) :
       rawQuestions[k].type = "MULTI_CHOICE" =>
          /\ rawQuestions[k].correctAnswer
                 = JStr(<<91, 34, 65, 34, 44, 34, 66, 34, 93>>)
              => mapped[k].correctAnswer = JArr(<< JStr(<<65>>), JStr(<<66>>) >>)
          /\ rawQuestions[k].correctAnswer = JStr(<<65, 44, 66>>)
              => /\ ~JSONparse(<<65, 44, 66>>).ok
                 /\ mapped[k].correctAnswer
                       = JArr(<< JStr(<<65>>), JStr(<<66>>) >>)
          /\ rawQuestions[k].correctAnswer = JStr(<<65>>)
              => mapped[k].correctAnswer = JArr(<< JStr(<<65>>) >>)

\* The MULTI_CHOICE record with the answer 'A,B' has been mapped, to the
\* array of A and B.
CommaListNormalized ==
    /\ pc = "normed"
    /\ Len(mapped) = 1
    /\ rawQuestions[1].type = "MULTI_CHOICE"
    /\ rawQuestions[1].correctAnswer = JStr(<<65, 44, 66>>)
    /\ mapped[1].correctAnswer = JArr(<< JStr(<<65>>), JStr(<<66>>) >>)

\* The messages fetchExternalContext logs (lines 49-159)
EnrichmentMessages ==
    {"search-engine", "scan-keywords", "keywords", "searching", "skip-search",
     "search-failed", "search-done"}

Logged(m) == \E k \in 1..Len(logs) : logs[k].msg = m

\* C15: a failure in the enrichment (the keyword call or the grounded search
\* call throws; the search providers return [] instead of throwing) never
\* rejects the run: while an enrichment call is pending the run is pending,
\* once the failure is logged the context is empty and the shards are
\* planned and the first one (when questions are asked for) launched, and a
\* run that rejects does so with the error of a shard.
EnrichmentFailureNotFatal ==
    /\ pc \in {"kw_call", "search_call"} => result = Pending
    /\ Logged("search-failed") =>
          /\ externalContext = ""
          /\ Logged("sharding")
          /\ batchCounts = PlanFrom(cfg.count, cfg.userBatchSize, <<>>)
          /\ DOMAIN shards = 0..(Len(batchCounts) - 1)
          /\ cfg.count > 0 => shards[0].st # "idle"
    /\ result.state = "rejected" =>
          /\ result.error.kind \in {"api", "notext", "syntax"}
          /\ result.error.batch \in DOMAIN shards
          /\ shards[result.error.batch].st = "rejected"

\* The enrichment has failed and the run has resolved with questions.
ResolvedAfterEnrichmentFailure ==
    /\ Logged("search-failed")
    /\ pc = "done"
    /\ result.state = "resolved"
    /\ result.value # <<>>

\* C16: with no materials fetchExternalContext gives the empty string with no
\* backend or search call pending at any time and no log line of its own:
\* the line after "engine-start" is the "sharding" line of line 358.
NoMaterialsNoEnrichment ==
    cfg.materials = 0 =>
        /\ pc \notin {"kw_call", "search_call"}
        /\ externalContext = ""
        /\ \A k \in 1..Len(logs) : logs[k].msg \notin EnrichmentMessages
        /\ Len(logs) >= 2 => logs[2].msg = "sharding"

\* A run without materials has gone from the first log line straight to the
\* planning and has resolved.
NoMaterialsRunResolved ==
    /\ cfg.materials = 0
    /\ Len(logs) >= 2
    /\ logs[1].msg = "engine-start"
    /\ logs[2].msg = "sharding"
    /\ result.state = "resolved"

\* C17: a run that rejects in PARALLEL mode rejects with the error of the
\* shard that failed first in time, whatever the indices of the failing
\* shards and whether they failed before or after Promise.all was called.
RejectsWithEarliestFailure ==
    (cfg.shardingMode = "PARALLEL" /\ result.state = "rejected") =>
        /\ failed # <<>>
        /\ result.error = shards[failed[1]].err

\* C21: in PARALLEL mode the list of questions stays empty, and nothing is
\* cleaned, deduplicated or logged about it, while a launched shard is
\* pending: the list is filled and the scan runs only once every shard has
\* resolved, and a run that rejects leaves the list empty.
ParallelListEmptyUntilJoin ==
    cfg.shardingMode = "PARALLEL" =>
        /\ ( \/ questions # <<>>
             \/ uniqueQuestions # <<>>
             \/ acceptedFingerprints # <<>>
             \/ Logged("dedup")
             \/ result.state = "resolved" )
            => /\ pc = "done"
               /\ result.state = "resolved"
               /\ \A i \in DOMAIN shards : shards[i].st = "resolved"
        /\ pc # "done" => currentProgress <= 40

\* In PARALLEL mode a shard has resolved with questions while another one
\* is pending, and the list is empty.
ParallelPartialResultHidden ==
    /\ cfg.shardingMode = "PARALLEL"
    /\ pc = "joining"
    /\ \E i, j \in DOMAIN shards :
          /\ shards[i].st = "resolved"
          /\ shards[i].value # <<>>
          /\ shards[j].st \in {"calling", "backoff"}
    /\ questions = <<>>

IsLaunch(e) == e[1] = "launched"

\* C22: in PARALLEL mode the shards are launched in index order 0..N-1,
\* the next one when its sleep is over whatever became of the earlier ones
\* (the run stays pending through the launch loop), and the join is
\* started, and the run can reject, only once all N shards are launched.
ParallelLaunchOrder ==
    cfg.shardingMode = "PARALLEL" =>
        /\ \A k \in 1..Len(SelectSeq(events, IsLaunch)) :
              SelectSeq(events, IsLaunch)[k][2] = k - 1
        /\ \A i \in DOMAIN shards :
              shards[i].st # "idle" <=> i < Len(SelectSeq(events, IsLaunch))
        /\ pc = "launch_sleep" =>
              /\ result = Pending
              /\ cur = Len(SelectSeq(events, IsLaunch))
              /\ cur < Len(batchCounts)
        /\ (pc \in {"joining", "done"} \/ result.state # "pending") =>
              Len(SelectSeq(events, IsLaunch)) = Len(batchCounts)

\* In PARALLEL mode the first shard rejected, the second one was launched
\* after that, and the run has rejected.
LaunchedAfterFailure ==
    /\ cfg.shardingMode = "PARALLEL"
    /\ result.state = "rejected"
    /\ \E a, b \in 1..Len(events) :
          /\ a < b
          /\ events[a] = <<"rejected", 0>>
          /\ events[b] = <<"launched", 1>>

\* C23: once the run has rejected in PARALLEL mode the calls of the other
\* shards are not cancelled: every shard is settled, calling or backing
\* off, a pending call can still succeed, fail or return no text, a pending
\* backoff timer can still fire, and no later step changes the rejected
\* result or the list of questions.
RejectionCancelsNothing ==
    /\ []( (cfg.shardingMode = "PARALLEL" /\ result.state = "rejected") =>
              \A i \in DOMAIN shards :
                 /\ shards[i].st \in {"calling", "backoff", "resolved", "rejected"}
                 /\ shards[i].st = "calling" =>
                       /\ ENABLED BackendOk(i)
                       /\ ENABLED BackendError(i)
                       /\ ENABLED BackendNoText(i)
                 /\ shards[i].st = "backoff" => ENABLED RetrySleepDone(i) )
    /\ [][ (cfg.shardingMode = "PARALLEL" /\ result.state = "rejected") =>
              /\ result' = result
              /\ questions' = questions
              /\ pc' = "done" ]_vars

\* With all shards launched at once, the second shard rejected first and
\* the run rejected with its error; the first shard went on to its fourth
\* call and rejected after that.
RetriesOutliveRejection ==
    /\ cfg.shardingMode = "PARALLEL"
    /\ cfg.userRequestDelay = 0
    /\ result.state = "rejected"
    /\ result.error.batch = 1
    /\ failed = <<1, 0>>
    /\ shards[0].calls = 4
    /\ shards[0].err = ApiError(0, 4)

\* The values of the shards 0..n-1, one after the other
RECURSIVE InIndexOrder(_, _)
InIndexOrder(sh, n) ==
    IF n = 0 THEN <<>> ELSE InIndexOrder(sh, n - 1) \o sh[n - 1].value

\* C24: a run that resolves, in either mode, has scanned the shards' results
\* concatenated in the order of the shard indices, whatever the order in
\* which the shards resolved, and returns what the scan keeps of that list
\* (a permutation of it when shuffle is set); so that PARALLEL and SERIAL
\* runs with the same responses per shard and no shuffle return the same
\* questions in the same order.
CombinedInIndexOrder ==
    LET Same(d) ==
            /\ questions = d.questions
            /\ uniqueQuestions = d.unique
            /\ IF cfg.shuffle THEN result.value \in Perms(d.unique)
               ELSE result.value = d.unique
    IN  result.state = "resolved" =>
           /\ \A i \in DOMAIN shards : shards[i].st = "resolved"
           /\ Same(DedupFrom(InIndexOrder(shards, Len(batchCounts)),
                             1, <<>>, <<>>))

\* A PARALLEL run without shuffle has resolved with questions, the first
\* one of the first shard, after its second shard resolved before its
\* first one.
ResolvedOutOfOrder ==
    /\ cfg.shardingMode = "PARALLEL"
    /\ ~cfg.shuffle
    /\ result.state = "resolved"
    /\ Len(result.value) >= 2
    /\ result.value[1].batch = 0
    /\ \E a, b \in 1..Len(events) :
          /\ a < b
          /\ events[a] = <<"resolved", 1>>
          /\ events[b] = <<"resolved", 0>>

\* The backend calls made for the shards 0..n-1
RECURSIVE TotalCalls(_)
TotalCalls(n) == IF n = 0 THEN 0 ELSE shards[n - 1].calls + TotalCalls(n - 1)

\* C25: when every backend call is answered and every timer fires, a run
\* (the shard size is at least 1) resolves or rejects in the end, in both
\* modes; a shard never makes more than 4 backend calls and a run of N
\* shards never more than 4N.
RunSettlesWithinCallBudget ==
    /\ <>(result.state \in {"resolved", "rejected"})
    /\ [](/\ \A i \in DOMAIN shards : shards[i].calls <= 4
          /\ TotalCalls(Len(batchCounts)) <= 4 * Len(batchCounts))

\* A run of two shards has rejected and each shard has made its four calls.
CallBudgetUsedUp ==
    /\ result.state = "rejected"
    /\ Len(batchCounts) = 2
    /\ TotalCalls(2) = 8

\* C26: a backend call that returns without text, or with text that is not
\* the expected JSON, rejects the promise of its shard in the same step,
\* with no log line: the call that returned is the last one made for the
\* shard (the only one when it was the first), and the run rejects, at once
\* when it awaits the shard and else when the launch loop reaches the join.
ResponseWithoutQuestionsIsFatal ==
    /\ [](\A i \in DOMAIN shards :
            (shards[i].st = "rejected" /\ shards[i].err.kind \in {"notext", "syntax"})
            => /\ shards[i].err.batch = i
               /\ shards[i].calls = shards[i].err.call
               /\ shards[i].calls + shards[i].retries = 4
               /\ result.state # "resolved"
               /\ result.state = "pending" =>
                     cfg.shardingMode = "PARALLEL" /\ pc = "launch_sleep")
    /\ [][ \A i \in 0..(MaxShards - 1) :
              (BackendNoText(i) \/ BackendBadJson(i)) =>
                 /\ shards'[i].st = "rejected"
                 /\ shards'[i].calls = shards[i].calls
                 /\ logs' = logs
                 /\ pc \in {"serial_await", "joining"} =>
                       /\ result'.state = "rejected"
                       /\ result'.error = shards'[i].err ]_vars

\* The first call of the first shard returned without text, no other call
\* was made for the shard, and the run has rejected with that error.
FirstResponseWithoutText ==
    /\ shards # <<>>
    /\ shards[0].st = "rejected"
    /\ shards[0].err = [kind |-> "notext", batch |-> 0, call |-> 1]
    /\ shards[0].calls = 1
    /\ result = Rejected(shards[0].err)

\* C27: the enrichment calls go through callWithRetry as the shards' calls
\* do: when the keyword call or the grounded search call fails, the step
\* leaves the enrichment waiting for a retry of the call (its backoff timer
\* or the call made again), and does not yet give up with the empty context.
EnrichmentCallRetried ==
    [][ (KeywordCallFails \/ SearchCallFails) =>
           /\ pc' \in {"kw_call", "search_call", "enrich_backoff"}
           /\ \A k \in 1..Len(logs') : logs'[k].msg # "search-failed" ]_vars

DistinctIds(qs) ==
    \A a, b \in 1..Len(qs) : a # b => QuestionId(qs[a]) # QuestionId(qs[b])

\* The log lines with message m, in their order.
LinesOf(m) == SelectSeq(logs, LAMBDA l : l.msg = m)

\* C37: in both modes, when the run has resolved, the log holds for every
\* shard a line for its start and a line for its finish, each line for a
\* finish has a progress between 40 and 90, and in SERIAL mode the line
\* for the finish of shard i of N has progress 40 + round(50 * (i + 1) / N).
ShardStartAndFinishLogged ==
    (pc = "done" /\ result.state = "resolved") =>
       LET N == Len(batchCounts)
           starts == LinesOf("shard-start")
           finishes == LinesOf("progress")
       IN  /\ Len(starts) = N
           /\ \A i \in 1..N : starts[i].arg = i
           /\ Len(finishes) = N
           /\ \A i \in 1..Len(finishes) :
                 /\ finishes[i].prog \in 40..90
                 /\ cfg.shardingMode = "SERIAL" =>
                       finishes[i].prog = 40 + RoundDiv(50 * i, N)

\* The positions of the run inside fetchExternalContext, its call included.
EnrichPcs == {"init", "kw_call", "search_call"}

\* C31: the enrichment phase is gone through once and is over before the
\* first shard generation call: while the run is in it no shard exists, once
\* left it is never entered again and the context it returned never changes;
\* and every shard generateBatchQuestions was called for holds that same
\* context, at its first call and at every retry.
EnrichedOnceBeforeShards ==
    /\ [](pc \in EnrichPcs =>
             /\ shards = <<>>
             /\ externalContext = ""
             /\ \A k \in DOMAIN logs : logs[k].prog < 30)
    /\ [](\A i \in DOMAIN shards :
             shards[i].st # "idle" => shards[i].ctx = externalContext)
    /\ [][/\ pc \notin EnrichPcs => /\ pc' \notin EnrichPcs
                                     /\ externalContext' = externalContext
           /\ \A i \in DOMAIN shards :
                 shards[i].st # "idle" =>
                    /\ i \in DOMAIN shards'
                    /\ shards'[i].ctx = shards[i].ctx]_vars

\* Two shards were launched after an enrichment that found a context, the
\* first is at a retry, and both hold that context.
TwoShardsShareFoundContext ==
    /\ externalContext = "banner"
    /\ DOMAIN shards = 0..1
    /\ shards[0].calls >= 2
    /\ shards[1].calls >= 1
    /\ shards[0].ctx = "banner"
    /\ shards[1].ctx = "banner"

\* C20: in both modes, any two questions of a run have ids that differ in
\* the shard index or in the position in the shard, even when the clock gave
\* the same value to all of them: among the questions a shard resolved
\* with, among those collected from the shards, among those kept by the
\* duplicate filter and among those returned.
QuestionIdsDistinct ==
    /\ DistinctIds(questions)
    /\ DistinctIds(uniqueQuestions)
    /\ DistinctIds(result.value)
    /\ \A i \in DOMAIN shards :
          /\ DistinctIds(shards[i].value)
          /\ \A k \in 1..Len(shards[i].value) :
                QuestionId(shards[i].value[k]) = <<i, k - 1>>

\* A run has resolved after it collected two questions that have the same
\* position in two different shards.
SamePositionInTwoShards ==
    /\ result.state = "resolved"
    /\ \E a, b \in 1..Len(questions) :
          /\ questions[a].batch # questions[b].batch
          /\ questions[a].index = questions[b].index

----------------------------------------------------------------------------
(* Properties of cleanQuestionPrefix (specification SpecClean)             *)

\* C12: for every question text q the fingerprint of clean(q) is the
\* fingerprint of clean(clean(q)), texts with stacked prefixes such as
\* "1. 2. text" included.
FingerprintOfCleanIdempotent ==
    (call.fn = "cleanQuestionPrefix" /\ Len(call.out) = 2) =>
        Fingerprint(call.out[1]) = Fingerprint(call.out[2])

\* a is the end of b
IsSuffix(a, b) ==
    Len(a) <= Len(b) /\ SubSeq(b, Len(b) - Len(a) + 1, Len(b)) = a

\* C13: cleanQuestionPrefix turns "1. What is X?" into "What is X?" and
\* "Q3: test" into "test"; a text made of "1." or "Q1:" and of a rest that
\* begins, after spaces, with the letter a becomes that rest, trimmed; and
\* what is returned is always the end of the trimmed text, unaltered.
PrefixRemovedRestKept ==
    (call.fn = "cleanQuestionPrefix" /\ call.out # <<>>) =>
        /\ call.text = TextWhatIsX
            => call.out[1] = <<87, 104, 97, 116, 32, 105, 115, 32, 88, 63>>
        /\ call.text = TextQ3Test => call.out[1] = <<116, 101, 115, 116>>
        /\ \A p \in { <<49, 46>>, <<81, 49, 58>> } :
              ( /\ Len(call.text) > Len(p)
                /\ SubSeq(call.text, 1, Len(p)) = p
                /\ Trim(Drop(call.text, Len(p))) # <<>>
                /\ Trim(Drop(call.text, Len(p)))[1] = 97 )
              => call.out[1] = Trim(Drop(call.text, Len(p)))
        /\ IsSuffix(call.out[1], Trim(call.text))

\* "Q3: test" has been cleaned to "test".
LabelledPrefixRemoved ==
    /\ pc = "cleaned"
    /\ call.text = TextQ3Test
    /\ call.out[1] = <<116, 101, 115, 116>>

\* C14: cleanQuestionPrefix turns "（2）示例", whose number stands between
\* full-width parentheses, into "示例".
FullWidthParenthesesRemoved ==
    ( /\ call.fn = "cleanQuestionPrefix"
      /\ call.text = TextFullWidthTwo
      /\ call.out # <<>> )
        => call.out[1] = <<31034, 20363>>

\* C38: cleanQuestionPrefix turns "(1)X", "1)X", "1.X", "【1】X" and
\* "1. 题目：X" into "X".
NumericPrefixFormsRemoved ==
    ( /\ call.fn = "cleanQuestionPrefix"
      /\ call.text \in {TextParenOneX, TextOneParenX, TextOneDotX,
                        TextLenticularOneX, TextOneLabelX}
      /\ call.out # <<>> )
        => call.out[1] = <<88>>

----------------------------------------------------------------------------
(* Properties of the search providers (specification SpecSearch)           *)

\* C18: every search provider returns at most 5 results, whatever the
\* response, also when the response carries more than 5 items.
AtMostFiveResults ==
    (call.fn \in SearchProviders /\ call.st = "returned") =>
        Len(call.out) <= SliceEnd

\* C19: a search provider never rejects; without a stored key it returns []
\* and sends no request; after a response that is not ok, a network error,
\* a body that is not JSON, a null body or a body whose list is not a list,
\* it returns [].
ProvidersAlwaysResolve ==
    call.fn \in SearchProviders =>
        /\ call.st \in {"called", "fetching", "reading", "returned"}
        /\ call.key = "" =>
              /\ call.requests = 0
              /\ call.st \in {"called", "returned"}
              /\ call.out = <<>>
        /\ call.requests <= 1
        /\ ( /\ call.st = "returned"
              /\ call.response \in {"not-ok", "network-error", "unparsable"} )
            => call.out = <<>>
        /\ ( /\ call.st = "returned"
              /\ call.response = "parsed"
              /\ \/ call.body.t = "null"
                 \/ PickList(call.fn, call.body).t # "array" )
            => call.out = <<>>

\* searchTavily has sent its request, got a body that is not JSON, and has
\* returned [].
UnparsableBodyGivesEmptyList ==
    /\ call.fn = "searchTavily"
    /\ call.requests = 1
    /\ call.response = "unparsable"
    /\ call.st = "returned"
    /\ call.out = <<>>

----------------------------------------------------------------------------
(* Properties of callWithRetry (specification SpecRetry)                   *)

\* C28: when fn first resolves at its k-th invocation, 1 <= k <=
\* maxRetries + 1, callWithRetry has invoked it k times, has logged k - 1
\* lines (none without onLog), has slept k - 1 times, and resolves with the
\* value of that invocation; for k = 1 there is no line and no sleep.
SuccessAtAttemptK ==
    call.fn = "callWithRetry" =>
        /\ call.sh.calls \in 1..(call.maxRetries + 1)
        /\ call.sh.calls + call.sh.retries = call.maxRetries + 1
        /\ call.sh.st = "calling" => Len(call.sleeps) = call.sh.calls - 1
        /\ call.sh.st = "resolved" =>
              /\ call.sh.value = << call.sh.calls >>
              /\ Len(call.sleeps) = call.sh.calls - 1
              /\ Len(call.log) = IF call.onLog THEN call.sh.calls - 1 ELSE 0

\* fn resolved at its third invocation, after two lines and two sleeps.
ResolvedAtThirdAttempt ==
    /\ call.fn = "callWithRetry"
    /\ call.onLog
    /\ call.sh.st = "resolved"
    /\ call.sh.value = << 3 >>
    /\ Len(call.log) = 2
    /\ Len(call.sleeps) = 2

\* C29: on a failure with retries left callWithRetry logs, sets the timer
\* to the current delay and invokes fn again when it fires; the first sleep
\* is the initial delay and each later one 1.5 times the one before, so
\* that 2000 and 3 retries give 2000, 3000 and 4500; no sleep follows the
\* last failure.
BackoffDelaysGrow ==
    call.fn = "callWithRetry" =>
        /\ \A k \in 1..Len(call.sleeps) :
              IF k = 1 THEN call.sleeps[k] = call.initialDelay
              ELSE 2 * call.sleeps[k] = 3 * call.sleeps[k - 1]
        /\ call.sh.st = "backoff" =>
              /\ Len(call.sleeps) = call.sh.calls
              /\ call.onLog => Len(call.log) = call.sh.calls
              /\ call.sh.retries >= 1
        /\ call.sh.st = "rejected" =>
              /\ call.sh.calls = call.maxRetries + 1
              /\ Len(call.sleeps) = call.maxRetries
              /\ call.sh.err = ApiError(0, call.sh.calls)
        /\ ( /\ call.initialDelay = 2000
              /\ call.maxRetries = 3
              /\ call.sh.st = "rejected" )
            => call.sleeps = <<2000, 3000, 4500>>

\* callWithRetry called with 2000 and 3 retries has rejected after the
\* sleeps of 2000, 3000 and 4500.
ThreeSleepsThenRejected ==
    /\ call.fn = "callWithRetry"
    /\ call.initialDelay = 2000
    /\ call.maxRetries = 3
    /\ call.sh.st = "rejected"
    /\ call.sleeps = <<2000, 3000, 4500>>

\* C30: for every maxRetries >= 1 the line logged before the k-th retry
\* carries the attempt number k: 1, 2, ..., in this order.
RetryLinesNumberedFromOne ==
    (call.fn = "callWithRetry" /\ call.maxRetries >= 1) =>
        \A k \in 1..Len(call.log) : call.log[k] = k

====
